---- MODULE Spec2Model ----
(***************************************************************************)
(* A model of SAMap's iterative cross-species manifold alignment engine.   *)
(*                                                                         *)
(*   src/samap/mapping.py  SAMAP (constructor), _Samap_Iter, _avg_as,      *)
(*                         _mapper, _refine_corr, _calculate_blast_graph,  *)
(*                         _get_pairs, _xicorr, _refine_corr_kernel, ...   *)
(*   src/SAMap.py          the two-species predecessor: SAMAP, get_pairs,  *)
(*                         _sparse_knn, _parallel_wrapper, ...             *)
(*                                                                         *)
(* The module holds several specifications over one set of variables:      *)
(*   Spec          _Samap_Iter.run, one action per step of the loop body   *)
(*   SpecConstruct SAMAP.__init__ / SAMAP(): validation, loading, lookup   *)
(*                 of the hit-table directories                            *)
(*   SpecKernel    the correlation kernel applied to one gene pair         *)
(*   SpecPairs     _sparse_knn and the two pruners applied to one graph    *)
(*   SpecGraph     _calculate_blast_graph on hit tables, _refine_corr on a *)
(*                 graph: chunks, refinement of the chunks, assembly       *)
(*   SpecKnn       _mapper: the neighbour graph of _pairwise_knn installed *)
(*                 as the connectivity graph                               *)
(*   SpecLegacy    Samap.run of SAMap.py: the first stitch and the while   *)
(*                 loop with its burn-in counter                           *)
(*   SpecRace      the correlation kernel run by several workers           *)
(*   SpecPrefix    _prepend_blast_prefix on one identifier                 *)
(* Each specification leaves the variables of the others at their idle     *)
(* values.                                                                 *)
(***************************************************************************)
EXTENDS Integers, Sequences, FiniteSets, TLC

VARIABLES
    \* ---- _Samap_Iter (mapping.py 542-638) ----
    pc,            \* position inside / outside _Samap_Iter.run
    nspecies,      \* len(sams): the number of species handed to the engine
    ncells,        \* the number of cells every species holds
    self_gnnm,     \* self.gnnm   the initial homology graph
    self_gnnmu,    \* self.gnnmu  the current (refined) homology graph
    self_samap,    \* self.samap  the stitched object last installed
    self_iter,     \* self.iter
    final_sam,     \* self.final_sam
    GNNMS_pruned,  \* ITER_DATA[2]
    GNNMS_corr,    \* ITER_DATA[1]
    GNNMS_nnm,     \* ITER_DATA[0]
    SCORE_VEC,     \* ITER_DATA[3]
    args,          \* the arguments of the run call in progress
    i,             \* the loop variable of run
    gnnmu,         \* run's local gnnmu
    gnnm2,         \* run's local gnnm2
    sam4,          \* run's local sam4
    err,           \* the exception that ended the last run, "none" otherwise
    hist,          \* the steps the run call in progress has executed, in order
    printed,       \* the score matrices the run call in progress has printed
    calls,         \* how many times run has been called
    ended,         \* for every run call that ended: its NUMITERS and its error
    heap,          \* the sparse-matrix objects created so far: their contents
    id_gnnm,       \* the object self.gnnm names
    id_gnnm2,      \* the object run's local gnnm2 names, 0 when unbound
    id_conn,       \* the object sam4.adata.obsp["connectivities"] names
    ids_pruned,    \* the objects the entries of GNNMS_pruned name
    ids_corr,      \* the objects the entries of GNNMS_corr name
    ids_nnm,       \* the objects the entries of GNNMS_nnm name
    \* ---- engine construction (mapping.py 19-158, SAMap.py 16-181) ----
    api,            \* "mapping": the SAMAP class; "legacy": the SAMAP function
    sams,           \* the kind of every input, in dict order
    save_processed, \* the save_processed argument
    gnnm_given,     \* whether a prebuilt homology graph was passed
    cpc,            \* position inside the constructor
    sid,            \* the species the loading loop is at
    loaded,         \* species whose dataset was loaded and preprocessed
    saved,          \* species whose processed dataset was written to disk
    pair,           \* the species pair the hit-table loop is at
    used,           \* per pair handled: the directories found and the one read
    graph,          \* "none" until a homology graph is returned
    cerr,           \* the exception that ended construction, "none" otherwise
    \* ---- the correlation of one gene pair (mapping.py 1067-1224,
    \*      SAMap.py 821-930) ----
    kimpl,         \* "mapping": _refine_corr_kernel; "legacy": _parallel_wrapper
    kmode,         \* corr_mode
    kthr,          \* THR
    kx,            \* the neighbourhood-averaged profile of the first gene
    ky,            \* the neighbourhood-averaged profile of the second gene
    kxi,           \* the order np.argsort(X) returned, << >> when it was not called
    kval,          \* the value the kernel produced for the pair
    kout,          \* the pair's entry in the refined graph
    kpc,           \* position in the refinement of the pair
    kerr,          \* the exception that ended the refinement, "none" otherwise
    \* ---- the pruners (SAMap.py 349-364 and 743-768, mapping.py 1012-1028) ----
    pfun,          \* the function called: "get_pairs", "_get_pairs", "_sparse_knn"
    pgnnm,         \* the matrix handed to it
    pW,            \* the feature weight of every gene
    NOPs1,         \* get_pairs: NOPs1; _sparse_knn: k
    NOPs2,         \* get_pairs: NOPs2
    pB,            \* the matrix it returned
    ppc,           \* "off", "ready" or "done"
    \* ---- building and refining the homology graph (mapping.py 674-747,
    \*      759-865) ----
    gfun,          \* "_calculate_blast_graph" or "_refine_corr"
    gn,            \* gns.size: the genes are 1..gn
    gsp,           \* the species of every gene
    ggraph,        \* the hit tables (blast) or the input graph gnnm (refine)
    reciprocate,   \* _calculate_blast_graph's flag
    NCLUSTERS,     \* _refine_corr's NCLUSTERS
    gix,           \* ix = np.argsort(cl), the genes ordered by cluster
    gcorr,         \* the thresholded correlation of every unordered gene pair
    gW,            \* w of _refine_corr_parallel: 1 for a gene above T1, else 0
    ixs,           \* the base chunks, before neighbour expansion
    gout,          \* the graph returned
    gpc,           \* "off", "ready", "chunked", "done" or "raised"
    gerr,          \* the exception raised, "none" otherwise
    \* ---- stitching the species (mapping.py 650-672, 1226-1251, 1367-1401) ----
    sspecies,      \* the species of every cell, cells listed species by species
    spos,          \* the place of every cell in the corrected projection
    sK,            \* K
    spairwise,     \* pairwise
    squeries,      \* the _united_proj calls made: <<query species, reference>>
    sconn,         \* samap.adata.obsp["connectivities"]
    spc,           \* "off", "ready", "done" or "raised"
    serr,          \* the exception raised, "none" otherwise
    \* ---- Samap.run of SAMap.py (990-1071) ----
    lpc,           \* position inside / outside Samap.run
    lsm,           \* whether the module namespace binds the name sm
    largs,         \* NUMITERS, K and NCLUSTERS of the run call in progress
    li,            \* run's local i
    BURN_IN,       \* run's local BURN_IN
    FLAG,          \* run's local FLAG
    lgnnmu,        \* run's local gnnmu
    lgnnm2,        \* run's local gnnm2
    lsam4,         \* run's local sam4
    coarsen,       \* run's local coarsen
    lGNNMS_nnm,    \* self.GNNMS_nnm
    lGNNMS_corr,   \* self.GNNMS_corr
    lGNNMS_pruned, \* self.GNNMS_pruned
    lSCORE_VEC,    \* self.SCORE_VEC
    lfinal_sam,    \* self.final_sam
    lbodies,       \* how many times the body of the while loop was entered
    lcalls,        \* how many times run has been called
    lerr,          \* the exception that ended the last run, "none" otherwise
    \* ---- the workers of the correlation kernel (mapping.py 1083-1124,
    \*      SAMap.py 804-930) ----
    rimpl,         \* "mapping": the prange loop; "legacy": the process pool
    rmode,         \* corr_mode
    rworkers,      \* the number of workers
    rX,            \* the neighbourhood-averaged profile of every gene
    rx,            \* the array x of every worker
    ry,            \* the array y of every worker
    runit,         \* the work unit j every worker is at, 0 when it has none
    rtaken,        \* the work units handed out
    rdone,         \* the work units whose value was written
    rres,          \* the output: res (mapping.py), CORR (SAMap.py)
    \* ---- namespacing of the identifiers (mapping.py 749-757) ----
    fpre,          \* pre, the species id
    fg,            \* the identifier as the hit table gives it
    fout,          \* the identifier after the calls made so far
    fpc            \* "off", "raw", "once" or "twice"

runVars == <<pc, nspecies, ncells, self_gnnm, self_gnnmu, self_samap, self_iter,
             final_sam, GNNMS_pruned, GNNMS_corr, GNNMS_nnm, SCORE_VEC, args, i,
             gnnmu, gnnm2, sam4, err, hist, printed, calls, ended, heap,
             id_gnnm, id_gnnm2, id_conn, ids_pruned, ids_corr, ids_nnm>>

\* the objects behind the graphs of _Samap_Iter
heapVars == <<heap, id_gnnm, id_gnnm2, id_conn, ids_pruned, ids_corr, ids_nnm>>

consVars == <<api, sams, save_processed, gnnm_given, cpc, sid, loaded, saved,
              pair, used, graph, cerr>>

kernVars == <<kimpl, kmode, kthr, kx, ky, kxi, kval, kout, kpc, kerr>>

pairVars == <<pfun, pgnnm, pW, NOPs1, NOPs2, pB, ppc>>

graphVars == <<gfun, gn, gsp, ggraph, reciprocate, NCLUSTERS, gix, gcorr, gW,
               ixs, gout, gpc, gerr>>

knnVars == <<sspecies, spos, sK, spairwise, squeries, sconn, spc, serr>>

legVars == <<lpc, lsm, largs, li, BURN_IN, FLAG, lgnnmu, lgnnm2, lsam4, coarsen,
             lGNNMS_nnm, lGNNMS_corr, lGNNMS_pruned, lSCORE_VEC, lfinal_sam,
             lbodies, lcalls, lerr>>

raceVars == <<rimpl, rmode, rworkers, rX, rx, ry, runit, rtaken, rdone, rres>>

prefVars == <<fpre, fg, fout, fpc>>

vars == <<runVars, consVars, kernVars, pairVars, graphVars, knnVars, legVars,
          raceVars, prefVars>>

\* what the actions of one group leave alone
exceptRun == <<consVars, kernVars, pairVars, graphVars, knnVars, legVars,
    raceVars, prefVars>>
exceptCons == <<runVars, kernVars, pairVars, graphVars, knnVars, legVars,
    raceVars, prefVars>>
exceptKern == <<runVars, consVars, pairVars, graphVars, knnVars, legVars,
    raceVars, prefVars>>
exceptPairs == <<runVars, consVars, kernVars, graphVars, knnVars, legVars,
    raceVars, prefVars>>
exceptGraph == <<runVars, consVars, kernVars, pairVars, knnVars, legVars,
    raceVars, prefVars>>
exceptKnn == <<runVars, consVars, kernVars, pairVars, graphVars, legVars,
    raceVars, prefVars>>
exceptLegacy == <<runVars, consVars, kernVars, pairVars, graphVars, knnVars,
    raceVars, prefVars>>
exceptRace == <<runVars, consVars, kernVars, pairVars, graphVars, knnVars,
    legVars, prefVars>>
exceptPrefix == <<runVars, consVars, kernVars, pairVars, graphVars, knnVars,
    legVars, raceVars>>

-----------------------------------------------------------------------------
(* Bounds of the model.                                                    *)

MaxSpecies == 2   \* species handed to the engine: 1..MaxSpecies
MaxCells == 2     \* cells per species: 1..MaxCells
MaxIters == 2     \* NUMITERS of one run call: 0..MaxIters
MaxK == 2         \* K (crossK) of one run call: 1..MaxK
MaxCalls == 2     \* run calls on one engine
MaxSams == 3      \* inputs handed to the constructor: 1..MaxSams
MaxProfile == 2   \* profile values of the correlation kernel: 0..MaxProfile
MaxNOPs == 1      \* NOPs1, NOPs2 and the k of _sparse_knn: 0..MaxNOPs
MaxNCLUSTERS == 2 \* NCLUSTERS of _refine_corr: 1..MaxNCLUSTERS
MaxPos == 2           \* places of a cell in the projection: 0..MaxPos
MaxWorkers == 2       \* workers of the correlation kernel: 1..MaxWorkers
MaxLen == 2           \* characters of a species id or an identifier: 1..MaxLen

-----------------------------------------------------------------------------
(* Values.  Homology and connectivity graphs are carried through the loop  *)
(* as the expression that produced them (which function, applied to which  *)
(* graph, with which parameters), so that two graphs are equal exactly     *)
(* when the same computation on the same inputs produced them.  What the   *)
(* pruner, the kernel and the top-k filter compute entry by entry is       *)
(* modelled on concrete matrices in SpecPairs and SpecKernel.              *)

Unbound == [op |-> "unbound"]        \* a name not (yet) bound
InputGraph == [op |-> "gnnm"]        \* the graph passed to _Samap_Iter.__init__
NoArgs == [NUMITERS |-> 0, K |-> 0, pairwise |-> TRUE]
EmptyDict == [k \in {} |-> 0]

\* d[key] = value, as a Python dict assignment
DictSet(d, key, value) ==
    [k \in (DOMAIN d) \cup {key} |-> IF k = key THEN value ELSE d[k]]

\* _get_pairs(sams, gnnm, gns_dict): a new graph computed from gnnm
_get_pairs(g) == [op |-> "_get_pairs", gnnm |-> g]

\* The smallest reference set a k-nearest-neighbour query is run against:
\* one species in pairwise mode, all cells in pooled mode.
_pairwise_knn_reference(ns, nc, pairwise) ==
    IF pairwise THEN nc ELSE ns * nc

\* hnswlib's knn_query cannot return k neighbours out of fewer than k points
_mapper_raises(ns, nc, K, pairwise) == K > _pairwise_knn_reference(ns, nc, pairwise)

\* _mapper(sams, gnnm, gn, K, pairwise): a fresh stitched object whose
\* connectivities are the neighbour graph of the latent space built from gnnm
_mapper(g, K, pairwise) ==
    [conn |-> [op |-> "_mapper", gnnm |-> g, K |-> K, pairwise |-> pairwise],
     uns |-> EmptyDict]

refine_previous_graph(gnnm, samap) ==
    [op |-> "_refine_corr", gnnm |-> self_gnnmu, conn |-> samap.conn]

\* _Samap_Iter.refine_homology_graph: _refine_corr over self.gnnm and the
\* connectivities of self.samap
refine_homology_graph(gnnm, samap) ==
    [op |-> "_refine_corr", gnnm |-> gnnm, conn |-> samap.conn]

\* The ordered pairs (i, j) of distinct species _avg_as fills: lines 644-646
SpeciesPairs(ns) == {p \in (1..ns) \X (1..ns) : p[1] # p[2]}

\* _avg_as(s), line 647: every off-diagonal entry reads
\* s.adata.uns['mapping_K'], a KeyError when the key is absent
_avg_as_raises(s, ns) == SpeciesPairs(ns) # {} /\ "mapping_K" \notin DOMAIN s.uns

\* _avg_as(s): entry (i, j) is the mean over the cells of species i of the
\* row sums of block (i, j) of s's connectivities, divided by uns['mapping_K']
_avg_as(s, ns) ==
    [p \in SpeciesPairs(ns) |->
        [op |-> "mean_row_sum", conn |-> s.conn, K |-> s.uns["mapping_K"]]]

\* A sparse matrix is an object: a list entry, an attribute and a local name
\* hold a reference to it, and an operation that works in place changes what
\* every holder of the reference sees.  heap[id] is the content of object id.
New(h, v) == Append(h, v)

\* the object a name bound to gnnm.copy() refers to: the one just created
NoCopy(h, id) == id

copy(h, id) == Len(h) + 1

\* _tanh_scale applied to the stored values of a graph
_tanh_scale(g) == [op |-> "_tanh_scale", gnnm |-> g]

\* _mapping_window, lines 1260-1261: gnnm_corr = gnnm.copy() and the scaling
\* written into gnnm_corr.data in place
_mapping_window_heap(h, id) ==
    LET h1 == New(h, h[id])
        c == copy(h, id)
    IN [h1 EXCEPT ![c] = _tanh_scale(h1[c])]

\* the record of a run call that ended with error e ("none": it returned)
Ended(e) == Append(ended, [NUMITERS |-> args.NUMITERS, err |-> e])

-----------------------------------------------------------------------------
(* _Samap_Iter                                                             *)

RunInit ==
    /\ pc = "idle"
    /\ nspecies \in 1..MaxSpecies
    /\ ncells \in 1..MaxCells
    /\ self_gnnm = InputGraph
    /\ self_gnnmu = InputGraph
    /\ self_samap = Unbound
    /\ self_iter = 0
    /\ final_sam = Unbound
    /\ GNNMS_pruned = << >>
    /\ GNNMS_corr = << >>
    /\ GNNMS_nnm = << >>
    /\ SCORE_VEC = << >>
    /\ args = NoArgs
    /\ i = 0
    /\ gnnmu = Unbound
    /\ gnnm2 = Unbound
    /\ sam4 = Unbound
    /\ err = "none"
    /\ hist = << >>
    /\ printed = << >>
    /\ calls = 0
    /\ ended = << >>
    /\ heap = <<InputGraph>>
    /\ id_gnnm = 1
    /\ id_gnnm2 = 0
    /\ id_conn = 0
    /\ ids_pruned = << >>
    /\ ids_corr = << >>
    /\ ids_nnm = << >>

\* run(NUMITERS, K, pairwise): lines 590-598
Call ==
    /\ UNCHANGED exceptRun
    /\ pc \in {"idle", "returned", "raised"}
    /\ calls < MaxCalls
    /\ \E n \in 0..MaxIters, k \in 1..MaxK, pw \in BOOLEAN :
          args' = [NUMITERS |-> n, K |-> k, pairwise |-> pw]
    /\ calls' = calls + 1
    /\ gnnmu' = self_gnnmu
    /\ gnnm2' = Unbound
    /\ sam4' = IF self_iter > 0 THEN self_samap ELSE Unbound
    /\ i' = 0
    /\ err' = "none"
    /\ hist' = << >>
    /\ printed' = << >>
    /\ pc' = "loop"
    /\ UNCHANGED <<nspecies, ncells, self_gnnm, self_gnnmu, self_samap, self_iter,
                   final_sam, GNNMS_pruned, GNNMS_corr, GNNMS_nnm, SCORE_VEC,
                   ended>>
    /\ UNCHANGED heapVars

\* for i in range(NUMITERS): line 600, and the test of line 601
LoopHead ==
    /\ UNCHANGED exceptRun
    /\ pc = "loop"
    /\ pc' = IF i < args.NUMITERS
             THEN (IF self_iter > 0 /\ i = 0 THEN "refine_first" ELSE "prune")
             ELSE "final"
    /\ UNCHANGED <<nspecies, ncells, self_gnnm, self_gnnmu, self_samap, self_iter,
                   final_sam, GNNMS_pruned, GNNMS_corr, GNNMS_nnm, SCORE_VEC,
                   args, i, gnnmu, gnnm2, sam4, err, hist, printed, calls,
                   ended>>
    /\ UNCHANGED heapVars

RefineFirstSkipped ==
    /\ UNCHANGED exceptRun
    /\ pc = "refine_first"
    /\ pc' = "prune"
    /\ UNCHANGED <<nspecies, ncells, self_gnnm, self_gnnmu, self_samap, self_iter,
                   final_sam, GNNMS_pruned, GNNMS_corr, GNNMS_nnm, SCORE_VEC,
                   args, i, gnnmu, gnnm2, sam4, err, hist, printed, calls,
                   ended>>
    /\ UNCHANGED heapVars

\* the refinement that opens a later run: lines 601-606
RefineFirst ==
    /\ UNCHANGED exceptRun
    /\ pc = "refine_first"
    /\ gnnmu' = refine_homology_graph(self_gnnm, self_samap)
    /\ GNNMS_corr' = Append(GNNMS_corr, gnnmu')
    /\ self_gnnmu' = gnnmu'
    /\ hist' = Append(hist, "refine")
    /\ pc' = "prune"
    /\ heap' = New(heap, gnnmu')
    /\ ids_corr' = Append(ids_corr, Len(heap'))
    /\ UNCHANGED <<nspecies, ncells, self_gnnm, self_samap, self_iter, final_sam,
                   GNNMS_pruned, GNNMS_nnm, SCORE_VEC, args, i, gnnm2, sam4, err,
                   printed, calls, ended, id_gnnm, id_gnnm2, id_conn,
                   ids_pruned, ids_nnm>>

\* lines 608-609
Prune ==
    /\ UNCHANGED exceptRun
    /\ pc = "prune"
    /\ gnnm2' = _get_pairs(gnnmu)
    /\ GNNMS_pruned' = Append(GNNMS_pruned, gnnm2')
    /\ hist' = Append(hist, "prune")
    /\ pc' = "map"
    /\ heap' = New(heap, gnnm2')
    /\ id_gnnm2' = Len(heap')
    /\ ids_pruned' = Append(ids_pruned, id_gnnm2')
    /\ UNCHANGED <<nspecies, ncells, self_gnnm, self_gnnmu, self_samap, self_iter,
                   final_sam, GNNMS_corr, GNNMS_nnm, SCORE_VEC, args, i, gnnmu,
                   sam4, err, printed, calls, ended, id_gnnm, id_conn,
                   ids_corr, ids_nnm>>

\* lines 611-617: project, batch-correct and stitch
Map ==
    /\ UNCHANGED exceptRun
    /\ pc = "map"
    /\ hist' = Append(hist, "map")
    /\ IF _mapper_raises(nspecies, ncells, args.K, args.pairwise)
       THEN /\ pc' = "raised"
            /\ err' = "RuntimeError"
            /\ ended' = Ended("RuntimeError")
            /\ heap' = _mapping_window_heap(heap, id_gnnm2)
            /\ UNCHANGED <<sam4, id_conn>>
       ELSE /\ pc' = "install"
            /\ sam4' = _mapper(gnnm2, args.K, args.pairwise)
            /\ heap' = New(_mapping_window_heap(heap, id_gnnm2), sam4'.conn)
            /\ id_conn' = Len(heap')
            /\ UNCHANGED <<err, ended>>
    /\ UNCHANGED <<nspecies, ncells, self_gnnm, self_gnnmu, self_samap, self_iter,
                   final_sam, GNNMS_pruned, GNNMS_corr, GNNMS_nnm, SCORE_VEC,
                   args, i, gnnmu, gnnm2, printed, calls, id_gnnm, id_gnnm2,
                   ids_pruned, ids_corr, ids_nnm>>

\* lines 619-621: self.samap and sam4 name the same object, so the key
\* written through self.samap is seen through sam4
Install ==
    /\ UNCHANGED exceptRun
    /\ pc = "install"
    /\ self_samap' = [sam4 EXCEPT !.uns = DictSet(sam4.uns, "mapping_k", args.K)]
    /\ sam4' = self_samap'
    /\ GNNMS_nnm' = Append(GNNMS_nnm, sam4.conn)
    /\ hist' = Append(hist, "install")
    /\ pc' = "score"
    /\ ids_nnm' = Append(ids_nnm, id_conn)
    /\ UNCHANGED <<nspecies, ncells, self_gnnm, self_gnnmu, self_iter, final_sam,
                   GNNMS_pruned, GNNMS_corr, SCORE_VEC, args, i, gnnmu, gnnm2,
                   err, printed, calls, ended, heap, id_gnnm, id_gnnm2,
                   id_conn, ids_pruned, ids_corr>>

\* lines 623-628: print(_avg_as(sam4)); self.iter += 1; the test of line 628.
\* The score matrix is printed; nothing is appended to SCORE_VEC.
Score ==
    /\ UNCHANGED exceptRun
    /\ pc = "score"
    /\ hist' = Append(hist, "score")
    /\ IF _avg_as_raises(sam4, nspecies)
       THEN /\ pc' = "raised"
            /\ err' = "KeyError"
            /\ ended' = Ended("KeyError")
            /\ UNCHANGED <<self_iter, i, printed>>
       ELSE /\ printed' = Append(printed, _avg_as(sam4, nspecies))
            /\ self_iter' = self_iter + 1
            /\ IF i < args.NUMITERS - 1
               THEN pc' = "refine" /\ UNCHANGED i
               ELSE pc' = "loop" /\ i' = i + 1
            /\ UNCHANGED <<err, ended>>
    /\ UNCHANGED <<nspecies, ncells, self_gnnm, self_gnnmu, self_samap, final_sam,
                   GNNMS_pruned, GNNMS_corr, GNNMS_nnm, SCORE_VEC, args, gnnmu,
                   gnnm2, sam4, calls>>
    /\ UNCHANGED heapVars

\* lines 629-636: the refinement between two cycles
Refine ==
    /\ UNCHANGED exceptRun
    /\ pc = "refine"
    /\ self_samap' = sam4
    /\ gnnmu' = refine_homology_graph(self_gnnm, self_samap')
    /\ GNNMS_corr' = Append(GNNMS_corr, gnnmu')
    /\ self_gnnmu' = gnnmu'
    /\ hist' = Append(hist, "refine")
    /\ i' = i + 1
    /\ pc' = "loop"
    /\ heap' = New(heap, gnnmu')
    /\ ids_corr' = Append(ids_corr, Len(heap'))
    /\ UNCHANGED <<nspecies, ncells, self_gnnm, self_iter, final_sam, GNNMS_pruned,
                   GNNMS_nnm, SCORE_VEC, args, gnnm2, sam4, err, printed,
                   calls, ended, id_gnnm, id_gnnm2, id_conn, ids_pruned,
                   ids_nnm>>

\* line 638: self.final_sam = sam4; sam4 is unbound when the loop body never
\* ran on a fresh engine
Final ==
    /\ UNCHANGED exceptRun
    /\ pc = "final"
    /\ IF sam4 = Unbound
       THEN /\ pc' = "raised"
            /\ err' = "UnboundLocalError"
            /\ ended' = Ended("UnboundLocalError")
            /\ UNCHANGED final_sam
       ELSE /\ pc' = "returned"
            /\ final_sam' = sam4
            /\ ended' = Ended("none")
            /\ UNCHANGED err
    /\ UNCHANGED <<nspecies, ncells, self_gnnm, self_gnnmu, self_samap, self_iter,
                   GNNMS_pruned, GNNMS_corr, GNNMS_nnm, SCORE_VEC, args, i, gnnmu,
                   gnnm2, sam4, hist, printed, calls>>
    /\ UNCHANGED heapVars

RunNext ==
    \/ Call
    \/ LoopHead
    \/ RefineFirst
    \/ Prune
    \/ Map
    \/ Install
    \/ Score
    \/ Refine
    \/ Final

-----------------------------------------------------------------------------
(* Engine construction.                                                    *)
(*   mapping.py: SAMAP.__init__ validates every input, then loads each     *)
(*   path input, then (when no graph is passed) _calculate_blast_graph     *)
(*   walks the species pairs i < j and reads the hit tables of each.       *)
(*   SAMap.py: SAMAP(data1, data2, ...) is the two-species predecessor.    *)
(* Whether a directory exists is the file system's answer at the moment    *)
(* os.path.exists is called; the answers for one pair are drawn when the   *)
(* loop reaches it.                                                        *)

Kinds == {"path", "SAM", "other"}     \* str, samalg.SAM, anything else

RECURSIVE SeqsOf(_, _)
SeqsOf(S, n) ==
    IF n = 0 THEN {<< >>}
    ELSE {Append(q, x) : q \in SeqsOf(S, n - 1), x \in S}

\* mapping.py 66-68 / SAMap.py 131-135: every input is a path or a SAM object
InputsValidFirstOnly(ss) == ss[1] \in {"path", "SAM"}

InputsValid(ss) == \A n \in 1..Len(ss) : ss[n] \in {"path", "SAM"}

NoPair == <<0, 0>>

\* for i in range(len(ids)): for j in range(i, len(ids)): if i != j
FirstPair(n) == IF n >= 2 THEN <<1, 2>> ELSE NoPair

NextPair(p, n) ==
    IF p[2] < n THEN <<p[1], p[2] + 1>>
    ELSE IF p[1] + 1 < n THEN <<p[1] + 1, p[1] + 2>>
    ELSE NoPair

\* mapping.py 770-781 / SAMap.py 169-174: the directory read for species a, b
\* given the set of existing directories; NoPair when neither ordering exists
LookupPairFirstOrderingOnly(a, b, existing) ==
    IF <<a, b>> \in existing THEN <<a, b>> ELSE NoPair

LookupPair(a, b, existing) ==
    IF <<a, b>> \in existing THEN <<a, b>>
    ELSE IF <<b, a>> \in existing THEN <<b, a>>
    ELSE NoPair

ConsIdle ==
    /\ api = "mapping"
    /\ sams = << >>
    /\ save_processed = FALSE
    /\ gnnm_given = FALSE
    /\ cpc = "off"
    /\ sid = 0
    /\ loaded = {}
    /\ saved = {}
    /\ pair = NoPair
    /\ used = << >>
    /\ graph = "none"
    /\ cerr = "none"

ConsInit ==
    /\ api \in {"mapping", "legacy"}
    /\ sams \in UNION {SeqsOf(Kinds, n) : n \in 1..MaxSams}
    /\ api = "legacy" => Len(sams) = 2
    /\ save_processed \in BOOLEAN
    /\ api = "legacy" => save_processed
    /\ gnnm_given \in BOOLEAN
    /\ api = "legacy" => ~gnnm_given
    /\ cpc = "validate"
    /\ sid = 0
    /\ loaded = {}
    /\ saved = {}
    /\ pair = NoPair
    /\ used = << >>
    /\ graph = "none"
    /\ cerr = "none"

\* mapping.py 66-71, SAMap.py 131-135
Validate ==
    /\ UNCHANGED exceptCons
    /\ cpc = "validate"
    /\ IF InputsValid(sams)
       THEN cpc' = "load" /\ sid' = 1 /\ UNCHANGED cerr
       ELSE cpc' = "raised" /\ cerr' = "TypeError" /\ UNCHANGED sid
    /\ UNCHANGED <<api, sams, save_processed, gnnm_given, loaded, saved, pair,
                   used, graph>>

\* mapping.py 73-104, one pass of the loop: a path is loaded, preprocessed and
\* run, and saved when save_processed; anything else is taken to be a SAM
\* object and its adata is read (line 98)
LoadOne ==
    /\ UNCHANGED exceptCons
    /\ api = "mapping"
    /\ cpc = "load"
    /\ sid <= Len(sams)
    /\ IF sams[sid] = "other"
       THEN /\ cpc' = "raised"
            /\ cerr' = "AttributeError"
            /\ UNCHANGED <<sid, loaded, saved>>
       ELSE /\ loaded' = IF sams[sid] = "path" THEN loaded \cup {sid} ELSE loaded
            /\ saved' = IF sams[sid] = "path" /\ save_processed
                        THEN saved \cup {sid} ELSE saved
            /\ sid' = sid + 1
            /\ UNCHANGED <<cpc, cerr>>
    /\ UNCHANGED <<api, sams, save_processed, gnnm_given, pair, used, graph>>

\* mapping.py 106-117: build the graph from the hit tables unless one was passed
AfterLoad ==
    /\ UNCHANGED exceptCons
    /\ api = "mapping"
    /\ cpc = "load"
    /\ sid > Len(sams)
    /\ IF gnnm_given
       THEN cpc' = "finish" /\ graph' = "given" /\ UNCHANGED pair
       ELSE cpc' = "blast" /\ pair' = FirstPair(Len(sams)) /\ UNCHANGED graph
    /\ UNCHANGED <<api, sams, save_processed, gnnm_given, sid, loaded, saved,
                   used, cerr>>

\* mapping.py 765-849, one pass of the pair loop of _calculate_blast_graph
BlastPair ==
    /\ UNCHANGED exceptCons
    /\ api = "mapping"
    /\ cpc = "blast"
    /\ pair # NoPair
    /\ \E existing \in SUBSET {pair, <<pair[2], pair[1]>>} :
          LET dir == LookupPair(pair[1], pair[2], existing) IN
          /\ used' = Append(used, [pair |-> pair, existing |-> existing, dir |-> dir])
          /\ IF dir = NoPair
             THEN cpc' = "raised" /\ cerr' = "FileExistsError" /\ UNCHANGED pair
             ELSE pair' = NextPair(pair, Len(sams)) /\ UNCHANGED <<cpc, cerr>>
    /\ UNCHANGED <<api, sams, save_processed, gnnm_given, sid, loaded, saved,
                   graph>>

\* mapping.py 851-865 and 106-115: the graph over all pairs is returned
BlastDone ==
    /\ UNCHANGED exceptCons
    /\ api = "mapping"
    /\ cpc = "blast"
    /\ pair = NoPair
    /\ graph' = "built"
    /\ cpc' = "finish"
    /\ UNCHANGED <<api, sams, save_processed, gnnm_given, sid, loaded, saved,
                   pair, used, cerr>>

\* mapping.py 119-158: restrict the graph to the datasets' genes and create
\* the _Samap_Iter
Finish ==
    /\ UNCHANGED exceptCons
    /\ api = "mapping"
    /\ cpc = "finish"
    /\ cpc' = "done"
    /\ UNCHANGED <<api, sams, save_processed, gnnm_given, sid, loaded, saved,
                   pair, used, graph, cerr>>

\* SAMap.py 137-157: data1, then data2, is loaded, preprocessed, run and saved
\* when it is a path
LegacyLoad ==
    /\ UNCHANGED exceptCons
    /\ api = "legacy"
    /\ cpc = "load"
    /\ sid <= 2
    /\ loaded' = IF sams[sid] = "path" THEN loaded \cup {sid} ELSE loaded
    /\ saved' = IF sams[sid] = "path" THEN saved \cup {sid} ELSE saved
    /\ sid' = sid + 1
    /\ UNCHANGED <<api, sams, save_processed, gnnm_given, cpc, pair, used, graph,
                   cerr>>

\* SAMap.py 160-166: sam1 and sam2 are bound only by the branches that load a
\* path
LegacyPrepare ==
    /\ UNCHANGED exceptCons
    /\ api = "legacy"
    /\ cpc = "load"
    /\ sid > 2
    /\ IF sams[1] = "path" /\ sams[2] = "path"
       THEN cpc' = "blast" /\ pair' = <<1, 2>> /\ UNCHANGED cerr
       ELSE cpc' = "raised" /\ cerr' = "UnboundLocalError" /\ UNCHANGED pair
    /\ UNCHANGED <<api, sams, save_processed, gnnm_given, sid, loaded, saved,
                   used, graph>>

\* SAMap.py 169-179 and 722-741: the directory lookup, then
\* calculate_blast_graph, which ends in a call of the undefined name
\* filter_gnnm (line 740) before any graph is returned
LegacyBlast ==
    /\ UNCHANGED exceptCons
    /\ api = "legacy"
    /\ cpc = "blast"
    /\ \E existing \in SUBSET {pair, <<pair[2], pair[1]>>} :
          LET dir == LookupPair(pair[1], pair[2], existing) IN
          /\ used' = Append(used, [pair |-> pair, existing |-> existing, dir |-> dir])
          /\ cerr' = IF dir = NoPair THEN "FileNotFoundError" ELSE "NameError"
    /\ cpc' = "raised"
    /\ UNCHANGED <<api, sams, save_processed, gnnm_given, sid, loaded, saved,
                   pair, graph>>

ConsNext ==
    \/ Validate
    \/ LoadOne
    \/ AfterLoad
    \/ BlastPair
    \/ BlastDone
    \/ Finish
    \/ LegacyLoad
    \/ LegacyPrepare
    \/ LegacyBlast

-----------------------------------------------------------------------------
(* The correlation of one gene pair.                                       *)
(* Profiles hold small naturals and the arithmetic is exact: a correlation *)
(* is the record [nan, num, den2] standing for num / sqrt(den2), or NaN.   *)
(* Rounding of the floating-point operations is not modelled.              *)

KernelCells == {1, 2, 3}             \* the cells a profile spans
CorrModes == {"pearson", "xicorr", "mutual_info"}
Thresholds == {-1, 0, 1}

NaN == [nan |-> TRUE, num |-> 0, den2 |-> 1]
Zero == [nan |-> FALSE, num |-> 0, den2 |-> 1]
Unset == [nan |-> FALSE, num |-> 0, den2 |-> 0]    \* no value was assigned
NoOutput == [stored |-> FALSE, val |-> Unset]

IsZero(v) == ~v.nan /\ v.num = 0 /\ v.den2 > 0

\* v < t for an integer t; a comparison with NaN is false
Less(v, t) ==
    /\ ~v.nan
    /\ IF t > 0 THEN v.num < 0 \/ v.num * v.num < t * t * v.den2
       ELSE IF t = 0 THEN v.num < 0
       ELSE v.num < 0 /\ v.num * v.num > t * t * v.den2

RECURSIVE SetSum(_, _)
SetSum(f, S) ==
    IF S = {} THEN 0
    ELSE LET c == CHOOSE c \in S : TRUE IN f[c] + SetSum(f, S \ {c})

\* The sample correlation of x and y over the cells C; 0/0 where a profile
\* has no variance.  mapping.py 1120 (all cells), SAMap.py 925 (np.corrcoef)
Pearson(x, y, C) ==
    LET n == Cardinality(C)
        sx == SetSum(x, C)
        sy == SetSum(y, C)
        sxy == SetSum([c \in C |-> x[c] * y[c]], C)
        sxx == SetSum([c \in C |-> x[c] * x[c]], C)
        syy == SetSum([c \in C |-> y[c] * y[c]], C)
        A == n * sxx - sx * sx
        B == n * syy - sy * sy
    IN IF A = 0 \/ B = 0 THEN NaN
       ELSE [nan |-> FALSE, num |-> n * sxy - sx * sy, den2 |-> A * B]

\* The orders np.argsort(X, kind='quicksort') may return: quicksort is not
\* stable, so equal values come in an order the implementation picks
Argsorts(X) ==
    LET n == Cardinality(DOMAIN X) IN
    {p \in [1..n -> DOMAIN X] :
        /\ \A a, b \in 1..n : a # b => p[a] # p[b]
        /\ \A a, b \in 1..n : a < b => X[p[a]] <= X[p[b]]}

RECURSIVE SortedUnique(_)
SortedUnique(V) ==
    IF V = {} THEN << >>
    ELSE LET m == CHOOSE m \in V : \A w \in V : m <= w
         IN <<m>> \o SortedUnique(V \ {m})

\* nb_unique1d(ar): the sorted distinct values, for every position the index
\* of its value among them, and the count of every value
nb_unique1d(ar) ==
    LET n == Len(ar)
        u == SortedUnique({ar[a] : a \in 1..n})
    IN [values |-> u,
        inverse |-> [a \in 1..n |-> CHOOSE k \in 1..Len(u) : u[k] = ar[a]],
        counts |-> [k \in 1..Len(u) |->
                       Cardinality({a \in 1..n : ar[a] = u[k]})]]

NoCumsum(c) == c

\* np.cumsum
cumsum(c) == [k \in 1..Len(c) |-> SetSum(c, 1..k)]

Abs(z) == IF z < 0 THEN -z ELSE z

\* _xicorr(X, Y), with xi the order np.argsort(X) returned
_xicorr(X, Y, xi) ==
    LET n == Len(xi)
        Ys == [a \in 1..n |-> Y[xi[a]]]
        up == nb_unique1d(Ys)
        r == [a \in 1..n |-> cumsum(up.counts)[up.inverse[a]]]
        dn == nb_unique1d([a \in 1..n |-> -Ys[a]])
        l == [a \in 1..n |-> cumsum(dn.counts)[dn.inverse[a]]]
        denominator == 2 * SetSum([a \in 1..n |-> l[a] * (n - l[a])], 1..n)
        diffs == SetSum([a \in 1..(n - 1) |-> Abs(r[a + 1] - r[a])], 1..(n - 1))
    IN IF denominator > 0
       THEN [nan |-> FALSE, num |-> denominator - n * diffs,
             den2 |-> denominator * denominator]
       ELSE Zero

\* _refine_corr_kernel, lines 1119-1123: Pearson for "pearson", Xi otherwise
_refine_corr_kernel(x, y, xi, corr_mode) ==
    IF corr_mode = "pearson"
    THEN Pearson(x, y, DOMAIN x)
    ELSE _xicorr(x, y, xi)

\* _parallel_wrapper, lines 920-930 with T2 = 0: over the cells where either
\* profile is positive when some cell has both positive, 0 otherwise; an
\* unrecognised mode prints a message and leaves the pair without a value
_parallel_wrapper(x, y, corr_mode) ==
    LET iz == {c \in DOMAIN x : x[c] > 0 \/ y[c] > 0}
        izf == {c \in DOMAIN x : x[c] > 0 /\ y[c] > 0}
    IN IF izf # {}
       THEN (IF corr_mode = "pearson" THEN Pearson(x, y, iz) ELSE Unset)
       ELSE Zero

\* the cells of the two species of a pair: two cells or more
CellSets == {1..n : n \in 2..Cardinality(KernelCells)}

KernIdle ==
    /\ kimpl = "mapping"
    /\ kmode = "pearson"
    /\ kthr = 0
    /\ kx = << >>
    /\ ky = << >>
    /\ kxi = << >>
    /\ kval = Unset
    /\ kout = NoOutput
    /\ kpc = "off"
    /\ kerr = "none"

KernInit ==
    /\ kimpl \in {"mapping", "legacy"}
    /\ kmode \in CorrModes
    /\ kthr \in Thresholds
    /\ \E cells \in CellSets :
          /\ kx \in [cells -> 0..MaxProfile]
          /\ ky \in [cells -> 0..MaxProfile]
    /\ kxi = << >>
    /\ kval = Unset
    /\ kout = NoOutput
    /\ kpc = "ready"
    /\ kerr = "none"

\* mapping.py 1097-1123: one iteration of the prange loop
Kernel ==
    /\ UNCHANGED exceptKern
    /\ kimpl = "mapping"
    /\ kpc = "ready"
    /\ \E xi \in (IF kmode = "pearson" THEN {<< >>} ELSE Argsorts(kx)) :
          /\ kxi' = xi
          /\ kval' = _refine_corr_kernel(kx, ky, xi, kmode)
    /\ kpc' = "computed"
    /\ UNCHANGED <<kimpl, kmode, kthr, kx, ky, kout, kerr>>

StoreUnthresholded ==
    /\ UNCHANGED exceptKern
    /\ kimpl = "mapping"
    /\ kpc = "computed"
    /\ LET v == IF kval.nan THEN Zero ELSE kval
       IN kout' = [stored |-> ~IsZero(v), val |-> v]
    /\ kpc' = "done"
    /\ UNCHANGED <<kimpl, kmode, kthr, kx, ky, kxi, kval, kerr>>

\* mapping.py 1195-1223: NaN becomes 0, a value below THR becomes 0, the value
\* is written to the refined graph and stored zeros are dropped
Store ==
    /\ UNCHANGED exceptKern
    /\ kimpl = "mapping"
    /\ kpc = "computed"
    /\ LET v == IF kval.nan THEN Zero ELSE kval
           w == IF Less(v, kthr) THEN Zero ELSE v
       IN kout' = [stored |-> ~IsZero(w), val |-> w]
    /\ kpc' = "done"
    /\ UNCHANGED <<kimpl, kmode, kthr, kx, ky, kxi, kval, kerr>>

\* SAMap.py 904-930: one call of the pool's worker
Wrapper ==
    /\ UNCHANGED exceptKern
    /\ kimpl = "legacy"
    /\ kpc = "ready"
    /\ kval' = _parallel_wrapper(kx, ky, kmode)
    /\ kpc' = "computed"
    /\ UNCHANGED <<kimpl, kmode, kthr, kx, ky, kxi, kout, kerr>>

\* SAMap.py 880-900: a value below THR becomes 0 (NaN < THR is false), the
\* pair's value is looked up (KeyError when the worker left none) and written
\* to the refined graph, and stored zeros are dropped
LegacyStore ==
    /\ UNCHANGED exceptKern
    /\ kimpl = "legacy"
    /\ kpc = "computed"
    /\ IF kval = Unset
       THEN /\ kpc' = "raised"
            /\ kerr' = "KeyError"
            /\ UNCHANGED kout
       ELSE /\ LET w == IF Less(kval, kthr) THEN Zero ELSE kval
               IN kout' = [stored |-> ~IsZero(w), val |-> w]
            /\ kpc' = "done"
            /\ UNCHANGED kerr
    /\ UNCHANGED <<kimpl, kmode, kthr, kx, ky, kxi, kval>>

KernNext ==
    \/ Kernel
    \/ Store
    \/ Wrapper
    \/ LegacyStore

-----------------------------------------------------------------------------
(* The pruners.  A matrix is a function on Genes \X Genes whose entries    *)
(* are rationals [n, d] in lowest terms; an entry 0 is one that is not     *)
(* stored (every function below ends with eliminate_zeros).                *)

Genes == {1, 2, 3}
EdgeWeights == {0, 1, 2}             \* the entries of an input graph
FeatureWeights == {-1, 0, 1}         \* adata.var['weights'] of a gene

RECURSIVE GCD(_, _)
GCD(a, b) == IF b = 0 THEN a ELSE GCD(b, a % b)

\* the rational a / b, b > 0
Rat(a, b) ==
    LET g == GCD(Abs(a), b) IN [n |-> a \div g, d |-> b \div g]

R0 == Rat(0, 1)

RLeq(a, b) == a.n * b.d <= b.n * a.d

RMax(a, b) == IF RLeq(a, b) THEN b ELSE a

RMul(a, b) == Rat(a.n * b.n, a.d * b.d)

ZeroMatrix == [e \in Genes \X Genes |-> R0]

\* the matrix M as a table, so that its entries are computed once
Tabulated(M) == {T \in {M} : T = M}

\* scipy's .T
Transpose(B) == [e \in Genes \X Genes |-> B[<<e[2], e[1]>>]]

\* the stored entries of row r
Stored(D, r) == {c \in Genes : D[<<r, c>>] # R0}

\* The orders np.argsort may return for the stored data of row r: ascending,
\* equal values in an order the sort picks (the entries of a row are
\* themselves gathered by an unstable argsort of the row indices)
RowOrders(D, r) ==
    LET m == Cardinality(Stored(D, r)) IN
    {p \in [1..m -> Stored(D, r)] :
        /\ \A a, b \in 1..m : a # b => p[a] # p[b]
        /\ \A a, b \in 1..m : a < b => RLeq(D[<<r, p[a]>>], D[<<r, p[b]>>])}

\* one order for every row of R
RECURSIVE Orders(_, _)
Orders(D, R) ==
    IF R = {} THEN {<< >>}
    ELSE LET r == CHOOSE r \in R : TRUE
         IN {(r :> o) @@ f : o \in RowOrders(D, r), f \in Orders(D, R \ {r})}

\* Python's idx[:-k]: -0 is 0, so idx[:-0] is idx[:0], the empty slice
SliceToMinus(idx, k) ==
    IF k = 0 THEN << >> ELSE SubSeq(idx, 1, Len(idx) - k)

Range(q) == {q[a] : a \in DOMAIN q}

\* _sparse_knn(D, k), with ord the order np.argsort returned for every row
_sparse_knn(D, k, ord) ==
    LET zeroed(r) ==
            IF Len(ord[r]) > k THEN Range(SliceToMinus(ord[r], k)) ELSE {}
    IN [e \in Genes \X Genes |->
           IF e[2] \in zeroed(e[1]) THEN R0 ELSE D[e]]

\* get_pairs 745-747, _get_pairs 1014-1016: divide every row by its maximum
RECURSIVE RowMax(_, _, _)
RowMax(D, r, C) ==
    IF C = {} THEN R0
    ELSE LET c == CHOOSE c \in C : TRUE
         IN RMax(D[<<r, c>>], RowMax(D, r, C \ {c}))

NormaliseRows(D) ==
    LET su(r) == IF RowMax(D, r, Genes) = R0 THEN Rat(1, 1)
                 ELSE RowMax(D, r, Genes)
    IN [e \in Genes \X Genes |->
           Rat(D[e].n * su(e[1]).d, D[e].d * su(e[1]).n)]

\* W[W<0.]=0; W[W>0.]=1
Binarise(W) == [g \in Genes |-> IF W[g] > 0 THEN 1 ELSE 0]

MaskGraphColsOnly(D, W) ==
    [e \in Genes \X Genes |-> RMul(D[e], Rat(W[e[2]], 1))]

\* gnnm.multiply(W[None,:]).multiply(W[:,None])
MaskGraph(D, W) ==
    [e \in Genes \X Genes |->
        RMul(RMul(D[e], Rat(W[e[2]], 1)), Rat(W[e[1]], 1))]

\* get_pairs 762-767: both directions of every stored entry get the larger
\* of the two values
Symmetrise(B) ==
    [e \in Genes \X Genes |->
        IF B[e] # R0 \/ B[<<e[2], e[1]>>] # R0
        THEN RMax(B[e], B[<<e[2], e[1]>>])
        ELSE R0]

\* _get_pairs(sams, gnnm, gns_dict)
_get_pairs_matrix(gnnm, W) == MaskGraph(NormaliseRows(gnnm), Binarise(W))

\* an input graph: non-negative weights, no self-edges
InputGraphs ==
    {[e \in Genes \X Genes |->
         IF e[1] = e[2] THEN R0 ELSE Rat(f[e], 1)] :
       f \in [Genes \X Genes -> EdgeWeights]}

PairIdle ==
    /\ pfun = "none"
    /\ pgnnm = ZeroMatrix
    /\ pW = [g \in Genes |-> 1]
    /\ NOPs1 = 0
    /\ NOPs2 = 0
    /\ pB = ZeroMatrix
    /\ ppc = "off"

PairInit ==
    /\ pfun \in {"get_pairs", "_get_pairs", "_sparse_knn"}
    /\ pgnnm \in InputGraphs
    /\ pW \in (IF pfun = "_sparse_knn" THEN {[g \in Genes |-> 1]}
               ELSE [Genes -> FeatureWeights])
    /\ NOPs1 \in (IF pfun = "_get_pairs" THEN {0} ELSE 0..MaxNOPs)
    /\ NOPs2 \in (IF pfun = "get_pairs" THEN 0..MaxNOPs ELSE {0})
    /\ pB = ZeroMatrix
    /\ ppc = "ready"

\* SAMap.py 349-364, called on its own
SparseKnn ==
    /\ UNCHANGED exceptPairs
    /\ ppc = "ready"
    /\ pfun = "_sparse_knn"
    /\ \E ord \in Orders(pgnnm, Genes) :
          pB' = _sparse_knn(pgnnm, NOPs1, ord)
    /\ ppc' = "done"
    /\ UNCHANGED <<pfun, pgnnm, pW, NOPs1, NOPs2>>

\* SAMap.py 743-768
GetPairs ==
    /\ UNCHANGED exceptPairs
    /\ ppc = "ready"
    /\ pfun = "get_pairs"
    /\ \E masked \in Tabulated(MaskGraph(NormaliseRows(pgnnm), Binarise(pW))) :
       IF NOPs1 = 0 /\ NOPs2 = 0
       THEN pB' = masked
       ELSE \E ord1 \in Orders(masked, Genes) :
            \E BT \in Tabulated(Transpose(_sparse_knn(masked, NOPs1, ord1))) :
            \E ord2 \in Orders(BT, Genes) :
                pB' = Symmetrise(Transpose(_sparse_knn(BT, NOPs2, ord2)))
    /\ ppc' = "done"
    /\ UNCHANGED <<pfun, pgnnm, pW, NOPs1, NOPs2>>

\* mapping.py 1012-1028
GetPairsMulti ==
    /\ UNCHANGED exceptPairs
    /\ ppc = "ready"
    /\ pfun = "_get_pairs"
    /\ pB' = _get_pairs_matrix(pgnnm, pW)
    /\ ppc' = "done"
    /\ UNCHANGED <<pfun, pgnnm, pW, NOPs1, NOPs2>>

PairNext ==
    \/ SparseKnn
    \/ GetPairs
    \/ GetPairsMulti

-----------------------------------------------------------------------------
(* Building the homology graph from the hit tables and refining it.  The   *)
(* genes are 1..gn, listed species by species as gns is.  Matrices are as  *)
(* in the pruners.                                                         *)

MaxGenes == Cardinality(Genes)

M0 == ZeroMatrix

RAdd(a, b) == Rat(a.n * b.d + b.n * a.d, a.d * b.d)

\* gnnm + gnnm.T
AddTranspose(G) == [e \in Genes \X Genes |-> RAdd(G[e], G[<<e[2], e[1]>>])]

\* gnnms = (gnnm + gnnm.T) / 2
SymAverage(G) ==
    [e \in Genes \X Genes |-> RMul(AddTranspose(G)[e], Rat(1, 2))]

\* gnnm.data[:] = 1
Pattern(G) == [e \in Genes \X Genes |-> IF G[e] # R0 THEN Rat(1, 1) ELSE R0]

ReciprocalOneWay(S, G) ==
    [e \in Genes \X Genes |-> RMul(S[e], Pattern(G)[e])]

\* gnnms.multiply(gnnm).multiply(gnnm.T)
Reciprocal(S, G) ==
    [e \in Genes \X Genes |->
        RMul(RMul(S[e], Pattern(G)[e]), Pattern(G)[<<e[2], e[1]>>])]

\* The hits between species id1 < id2: table A holds the hits of genes of
\* id1 in id2, table B those of genes of id2 in id1, and gnnm1 + gnnm2 holds
\* both
PairHits(hits, sp, id1, id2) ==
    [e \in Genes \X Genes |->
        IF \/ sp[e[1]] = id1 /\ sp[e[2]] = id2
           \/ sp[e[1]] = id2 /\ sp[e[2]] = id1
        THEN hits[e] ELSE R0]

\* lines 830-835 for one pair of species
PairGraph(hits, sp, id1, id2, recip) ==
    LET gnnm == PairHits(hits, sp, id1, id2)
        gnnms == SymAverage(gnnm)
    IN IF recip THEN Reciprocal(gnnms, gnnm) ELSE gnnms

MatAdd(A, B) == [e \in Genes \X Genes |-> RAdd(A[e], B[e])]

\* lines 763-865: the graphs of all pairs id1 < id2, gathered in one coo matrix
\* (which sums the values given for one position)
RECURSIVE SumGraphs(_, _, _, _)
SumGraphs(hits, sp, recip, P) ==
    IF P = {} THEN M0
    ELSE LET p == CHOOSE p \in P : TRUE
         IN MatAdd(PairGraph(hits, sp, p[1], p[2], recip),
                   SumGraphs(hits, sp, recip, P \ {p}))

_calculate_blast_graph(hits, sp, recip) ==
    LET ids == {sp[g] : g \in Genes}
    IN SumGraphs(hits, sp, recip, {p \in ids \X ids : p[1] < p[2]})

\* ---- _refine_corr ----

\* Python's a[lo:hi] on a sequence indexed from 1 (positions lo+1..hi)
Slice(a, lo, hi) ==
    LET l == IF lo > Len(a) THEN Len(a) ELSE lo
        h == IF hi > Len(a) THEN Len(a) ELSE hi
    IN IF h <= l THEN << >> ELSE SubSeq(a, l + 1, h)

NGPCWithoutRemainder(n, ncl) == n \div ncl

\* NGPC = gns.size // NCLUSTERS + 1
NGPC(n, ncl) == n \div ncl + 1

\* lines 693-697: chunk i holds ix[i*NGPC : (i+1)*NGPC]
BaseChunks(ix, n, ncl) ==
    [c \in 1..ncl |->
        Range(Slice(ix, (c - 1) * NGPC(n, ncl), c * NGPC(n, ncl)))]

\* np.concatenate(ixs).size
RECURSIVE ConcatSize(_, _)
ConcatSize(chunks, c) ==
    IF c = 0 THEN 0 ELSE Cardinality(chunks[c]) + ConcatSize(chunks, c - 1)

NoExpand(G, chunk) == chunk

\* line 703: the chunk and every gene a gene of the chunk has an edge to
Expand(G, chunk) ==
    chunk \cup {c \in Genes : \E r \in chunk : G[<<r, c>>] # R0}

\* The unordered pair of a and b, smaller index first (np.sort(..., axis=1))
UPair(a, b) == IF a <= b THEN <<a, b>> ELSE <<b, a>>

UPairs == {e \in Genes \X Genes : e[1] < e[2]}

\* _refine_corr_parallel on the subgraph of the genes sub (use_seq False):
\* each unordered pair of genes above T1 with an edge gets its correlation
\* in both directions, stored zeros are dropped
_refine_corr_parallel(G, sub, corr, w) ==
    [e \in Genes \X Genes |->
        IF /\ e[1] \in sub /\ e[2] \in sub /\ e[1] # e[2]
           /\ w[e[1]] > 0 /\ w[e[2]] > 0
           /\ (G[e] # R0 \/ G[<<e[2], e[1]>>] # R0)
        THEN Rat(corr[UPair(e[1], e[2])], 1)
        ELSE R0]

\* lines 727-738: for the chunks in order, gnnm3[x, y] = value for every
\* pair x <= y stored in the chunk's result
RECURSIVE Assemble(_, _, _, _, _)
Assemble(G, chunks, corr, w, c) ==
    IF c = 0 THEN M0
    ELSE LET before == Assemble(G, chunks, corr, w, c - 1)
             sub == _refine_corr_parallel(G, Expand(G, chunks[c]), corr, w)
         IN [e \in Genes \X Genes |->
                IF e[1] <= e[2] /\ sub[e] # R0 THEN sub[e] ELSE before[e]]

NoMirror(U) == U

\* lines 741-745: gnnm3[y, x] = gnnm3[x, y] over the stored entries
Mirror(U) ==
    [e \in Genes \X Genes |->
        IF U[<<e[2], e[1]>>] # R0 THEN U[<<e[2], e[1]>>] ELSE U[e]]

CorrValues == {0, 1, 2}              \* correlations after the THR step

OffDiagonal == {e \in Genes \X Genes : e[1] # e[2]}

\* gns lists the genes species by species
SpeciesMaps ==
    {sp \in [Genes -> 1..MaxSpecies] :
        \A a, b \in Genes : a <= b => sp[a] <= sp[b]}

\* hit tables: a bit score for a gene and a gene of another species
HitTables(sp) ==
    {[e \in Genes \X Genes |->
         IF e[1] # e[2] /\ sp[e[1]] # sp[e[2]] THEN Rat(f[e], 1) ELSE R0] :
       f \in [OffDiagonal -> EdgeWeights]}

\* graphs over the genes 1..n, without self-edges
GraphsOver(n) ==
    {[e \in Genes \X Genes |->
         IF e[1] # e[2] /\ e[1] <= n /\ e[2] <= n THEN Rat(f[e], 1) ELSE R0] :
       f \in [OffDiagonal -> {0, 1}]}

HasEdge(G, a, b) == G[<<a, b>>] # R0 \/ G[<<b, a>>] # R0

\* the orders of the genes 1..n
GeneOrders(n) ==
    {p \in [1..n -> 1..n] : \A a, b \in 1..n : a # b => p[a] # p[b]}

NoCorr == [p \in UPairs |-> 0]

\* every gene above T1
AllAbove == [g \in Genes |-> 1]

GraphIdle ==
    /\ gfun = "none"
    /\ gn = 0
    /\ gsp = [g \in Genes |-> 1]
    /\ ggraph = M0
    /\ reciprocate = FALSE
    /\ NCLUSTERS = 1
    /\ gix = << >>
    /\ gcorr = NoCorr
    /\ gW = AllAbove
    /\ ixs = << >>
    /\ gout = M0
    /\ gpc = "off"
    /\ gerr = "none"

GraphInit ==
    /\ gfun \in {"_calculate_blast_graph", "_refine_corr"}
    /\ IF gfun = "_calculate_blast_graph"
       THEN /\ gn = MaxGenes
            /\ gsp \in SpeciesMaps
            /\ ggraph \in HitTables(gsp)
            /\ reciprocate \in BOOLEAN
            /\ NCLUSTERS = 1
            /\ gix = << >>
            /\ gcorr = NoCorr
            /\ gW = AllAbove
       ELSE /\ gn \in 1..MaxGenes
            /\ gsp = [g \in Genes |-> 1]
            /\ ggraph \in GraphsOver(gn)
            /\ reciprocate = FALSE
            /\ NCLUSTERS \in 1..MaxNCLUSTERS
            /\ gix \in GeneOrders(gn)
            /\ gcorr \in {c \in [UPairs -> CorrValues] :
                             \A p \in UPairs :
                                 ~HasEdge(ggraph, p[1], p[2]) => c[p] = 0}
            /\ gW \in {w \in [Genes -> {0, 1}] :
                          \A g \in Genes : g > gn => w[g] = 1}
    /\ ixs = << >>
    /\ gout = M0
    /\ gpc = "ready"
    /\ gerr = "none"

\* mapping.py 759-865, given the hit tables of every pair of species
BlastGraph ==
    /\ UNCHANGED exceptGraph
    /\ gpc = "ready"
    /\ gfun = "_calculate_blast_graph"
    /\ gout' = _calculate_blast_graph(ggraph, gsp, reciprocate)
    /\ gpc' = "done"
    /\ UNCHANGED <<gfun, gn, gsp, ggraph, reciprocate, NCLUSTERS, gix, gcorr, gW,
                   ixs, gerr>>

\* mapping.py 689-699: the base chunks and the assertion on their sizes
Chunk ==
    /\ UNCHANGED exceptGraph
    /\ gpc = "ready"
    /\ gfun = "_refine_corr"
    /\ ixs' = BaseChunks(gix, gn, NCLUSTERS)
    /\ IF ConcatSize(ixs', NCLUSTERS) = gn
       THEN gpc' = "chunked" /\ UNCHANGED gerr
       ELSE gpc' = "raised" /\ gerr' = "AssertionError"
    /\ UNCHANGED <<gfun, gn, gsp, ggraph, reciprocate, NCLUSTERS, gix, gcorr, gW,
                   gout>>

\* mapping.py 701-747: every chunk is expanded and refined, the results are
\* gathered and mirrored
RefineChunks ==
    /\ UNCHANGED exceptGraph
    /\ gpc = "chunked"
    /\ \E U \in Tabulated(Assemble(ggraph, ixs, gcorr, gW, NCLUSTERS)) :
          gout' = Mirror(U)
    /\ gpc' = "done"
    /\ UNCHANGED <<gfun, gn, gsp, ggraph, reciprocate, NCLUSTERS, gix, gcorr, gW,
                   ixs, gerr>>

GraphNext ==
    \/ BlastGraph
    \/ Chunk
    \/ RefineChunks

-----------------------------------------------------------------------------
(* Stitching: the nearest neighbours of every cell among the cells of a    *)
(* species (pairwise) or among all cells (pooled).  The corrected          *)
(* projection is a place on a line; the similarity of two cells falls with *)
(* their distance and is positive, as 1 - distance clipped at 1e-3 is.     *)
(* _tanh_scale is strictly increasing with values above 0.4: it keeps the  *)
(* order, the equality and the positivity of the weights and is left out.  *)

Cells == {1, 2, 3, 4}
SpeciesIds == {1, 2, 3}

\* cells listed species by species, species numbered without gaps
Layouts ==
    {sp \in [Cells -> SpeciesIds] :
        /\ \A a, b \in Cells : a <= b => sp[a] <= sp[b]
        /\ \A a \in Cells : sp[a] = 1 \/ \E b \in Cells : sp[b] = sp[a] - 1}

CellsOf(sp, id) == {c \in Cells : sp[c] = id}

Distance(pos, u, v) == Abs(pos[u] - pos[v])

\* 1 - dist1, clipped from below: positive
Similarity(pos, u, v) == MaxPos + 1 - Distance(pos, u, v)

NearestButOne(pos, u, reference, k) ==
    {N \in SUBSET reference :
        /\ Cardinality(N) = k - 1
        /\ \A v \in N : \A w \in reference \ N :
              Distance(pos, u, v) <= Distance(pos, u, w)}

\* p2.knn_query(wpca1, k): the sets of k cells of the reference nearest to
\* u; cells at the same distance come in any order
Nearest(pos, u, reference, k) ==
    {N \in SUBSET reference :
        /\ Cardinality(N) = k
        /\ \A v \in N : \A w \in reference \ N :
              Distance(pos, u, v) <= Distance(pos, u, w)}

\* the largest similarity among the neighbours N of u
RECURSIVE MaxSimilarity(_, _, _)
MaxSimilarity(pos, u, N) ==
    IF N = {} THEN 1
    ELSE LET v == CHOOSE v \in N : TRUE
             rest == MaxSimilarity(pos, u, N \ {v})
         IN IF Similarity(pos, u, v) > rest
            THEN Similarity(pos, u, v) ELSE rest

\* _united_proj, lines 1237-1250: row u of knn1v2 for the neighbours N
UnitedProjRow(pos, u, N) ==
    [v \in Cells |->
        IF v \in N
        THEN Rat(Similarity(pos, u, v), MaxSimilarity(pos, u, N))
        ELSE R0]

\* the _united_proj calls of _pairwise_knn, in order
PairwiseQueries(sp) ==
    LET ids == {sp[c] : c \in Cells}
        n == Cardinality(ids)
    IN [q \in 1..(n * n) |-> <<((q - 1) \div n) + 1, ((q - 1) % n) + 1>>]

\* hnswlib cannot return k neighbours from fewer than k cells
KnnRaises(sp, k, pairwise) ==
    IF pairwise
    THEN \E id \in {sp[c] : c \in Cells} : Cardinality(CellsOf(sp, id)) < k
    ELSE Cardinality(Cells) < k

\* The neighbour sets every query may return: one set for every cell and
\* every reference (a species, or 0 for all cells)
RECURSIVE NeighbourChoices(_, _, _)
NeighbourChoices(pos, k, Q) ==
    IF Q = {} THEN {<< >>}
    ELSE LET q == CHOOSE q \in Q : TRUE
         IN {(q :> N) @@ f :
                N \in Nearest(pos, q[1], q[2], k),
                f \in NeighbourChoices(pos, k, Q \ {q})}

\* _pairwise_knn: the rows of all queries gathered in one matrix
_pairwise_knn(pos, sp, pairwise, nb) ==
    [e \in Cells \X Cells |->
        IF pairwise
        THEN UnitedProjRow(pos, e[1], nb[<<e[1], CellsOf(sp, sp[e[2]])>>])[e[2]]
        ELSE UnitedProjRow(pos, e[1], nb[<<e[1], Cells>>])[e[2]]]

\* the queries: a cell and the cells it is looked up in
QuerySet(sp, pairwise) ==
    IF pairwise
    THEN {<<u, CellsOf(sp, id)>> : u \in Cells, id \in {sp[c] : c \in Cells}}
    ELSE {<<u, Cells>> : u \in Cells}

NoConn == [e \in Cells \X Cells |-> R0]

KnnIdle ==
    /\ sspecies = [c \in Cells |-> 1]
    /\ spos = [c \in Cells |-> 0]
    /\ sK = 1
    /\ spairwise = TRUE
    /\ squeries = << >>
    /\ sconn = NoConn
    /\ spc = "off"
    /\ serr = "none"

KnnInit ==
    /\ sspecies \in Layouts
    /\ spos \in [Cells -> 0..MaxPos]
    /\ sK \in 1..MaxK
    /\ spairwise \in BOOLEAN
    /\ squeries = << >>
    /\ sconn = NoConn
    /\ spc = "ready"
    /\ serr = "none"

\* _mapper, lines 665-671: the neighbour graph is computed, stored zeros
\* are dropped and the graph is installed as the connectivity graph
Stitch ==
    /\ UNCHANGED exceptKnn
    /\ spc = "ready"
    /\ IF KnnRaises(sspecies, sK, spairwise)
       THEN /\ spc' = "raised"
            /\ serr' = "RuntimeError"
            /\ UNCHANGED <<squeries, sconn>>
       ELSE /\ \E nb \in NeighbourChoices(spos, sK,
                                          QuerySet(sspecies, spairwise)) :
                  sconn' = _pairwise_knn(spos, sspecies, spairwise, nb)
            /\ squeries' = IF spairwise THEN PairwiseQueries(sspecies)
                           ELSE <<<<0, 0>>>>
            /\ spc' = "done"
            /\ UNCHANGED serr
    /\ UNCHANGED <<sspecies, spos, sK, spairwise>>

KnnNext == Stitch

-----------------------------------------------------------------------------
(* Samap.run of SAMap.py (990-1071).  The graphs are carried as the        *)
(* expression that produced them, as in _Samap_Iter above.  Line 1048      *)
(* calls sm.samap, and SAMap.py binds no name sm: lsm tells whether the    *)
(* program that imported the module has bound one.                         *)

LegacyInput == [op |-> "gnnm"]       \* self.gnnm, the graph given to Samap()
None == [op |-> "None"]
LegacyNoArgs == [NUMITERS |-> 0, K |-> 0, NCLUSTERS |-> 0]

\* get_pairs(sam1, sam2, gnnm, gn1, gn2, NOPs1, NOPs2): a new graph
get_pairs(g) == [op |-> "get_pairs", gnnm |-> g]

\* samap([sam1, sam2], gnnm2, gn, K=K, coarsen=coarsen): a new stitched object
samap(g, K, c) ==
    [conn |-> [op |-> "samap", gnnm |-> g, K |-> K, coarsen |-> c]]

\* refine_corr(sam1, sam2, sam_def, gnnm, ...): a new graph
refine_corr(g, sam_def, ncl) ==
    [op |-> "refine_corr", gnnm |-> g, conn |-> sam_def.conn, NCLUSTERS |-> ncl]

\* compute_csim(sam4, 'leiden_clusters')[3].flatten()
compute_csim(s) == [op |-> "compute_csim", conn |-> s.conn]

LegacyIdle ==
    /\ lpc = "off"
    /\ lsm = FALSE
    /\ largs = LegacyNoArgs
    /\ li = 0
    /\ BURN_IN = 0
    /\ FLAG = TRUE
    /\ lgnnmu = Unbound
    /\ lgnnm2 = Unbound
    /\ lsam4 = Unbound
    /\ coarsen = FALSE
    /\ lGNNMS_nnm = << >>
    /\ lGNNMS_corr = << >>
    /\ lGNNMS_pruned = << >>
    /\ lSCORE_VEC = << >>
    /\ lfinal_sam = Unbound
    /\ lbodies = 0
    /\ lcalls = 0
    /\ lerr = "none"

\* Samap(sam1, sam2, gnnm, gn1, gn2): lines 991-996
LegacyInit ==
    /\ lpc = "idle"
    /\ lsm \in BOOLEAN
    /\ largs = LegacyNoArgs
    /\ li = 0
    /\ BURN_IN = 0
    /\ FLAG = TRUE
    /\ lgnnmu = Unbound
    /\ lgnnm2 = Unbound
    /\ lsam4 = Unbound
    /\ coarsen = FALSE
    /\ lGNNMS_nnm = << >>
    /\ lGNNMS_corr = << >>
    /\ lGNNMS_pruned = << >>
    /\ lSCORE_VEC = << >>
    /\ lfinal_sam = Unbound
    /\ lbodies = 0
    /\ lcalls = 0
    /\ lerr = "none"

\* run(NUMITERS, ..., K, NCLUSTERS): lines 999-1008
LegacyCall ==
    /\ UNCHANGED exceptLegacy
    /\ lpc \in {"idle", "returned", "raised"}
    /\ lcalls < MaxCalls
    /\ \E n \in 0..MaxIters, k \in 1..MaxK, ncl \in 1..MaxNCLUSTERS :
          largs' = [NUMITERS |-> n, K |-> k, NCLUSTERS |-> ncl]
    /\ lcalls' = lcalls + 1
    /\ coarsen' = FALSE
    /\ lbodies' = 0
    /\ lerr' = "none"
    /\ lpc' = "first"
    /\ UNCHANGED <<lsm, li, BURN_IN, FLAG, lgnnmu, lgnnm2, lsam4, lGNNMS_nnm,
                   lGNNMS_corr, lGNNMS_pruned, lSCORE_VEC, lfinal_sam>>

\* lines 1010-1026: the pruning and the stitch made before the loop, and the
\* lists started with their results
LegacyFirst ==
    /\ UNCHANGED exceptLegacy
    /\ lpc = "first"
    /\ lgnnm2' = get_pairs(LegacyInput)
    /\ lsam4' = samap(lgnnm2', largs.K, coarsen)
    /\ lSCORE_VEC' = <<compute_csim(lsam4')>>
    /\ lGNNMS_corr' = <<None>>
    /\ lGNNMS_pruned' = <<lgnnm2'>>
    /\ li' = 0
    /\ lGNNMS_nnm' = <<lsam4'.conn>>
    /\ BURN_IN' = 0
    /\ FLAG' = TRUE
    /\ lpc' = "loop"
    /\ UNCHANGED <<lsm, largs, lgnnmu, coarsen, lfinal_sam, lbodies, lcalls,
                   lerr>>

\* while i < BURN_IN+1: line 1027
LegacyLoopHead ==
    /\ UNCHANGED exceptLegacy
    /\ lpc = "loop"
    /\ lpc' = IF li < BURN_IN + 1 THEN "refine" ELSE "final"
    /\ UNCHANGED <<lsm, largs, li, BURN_IN, FLAG, lgnnmu, lgnnm2, lsam4, coarsen,
                   lGNNMS_nnm, lGNNMS_corr, lGNNMS_pruned, lSCORE_VEC,
                   lfinal_sam, lbodies, lcalls, lerr>>

\* lines 1028-1040: i += 1 and the refinement over self.gnnm
LegacyRefine ==
    /\ UNCHANGED exceptLegacy
    /\ lpc = "refine"
    /\ lbodies' = lbodies + 1
    /\ li' = li + 1
    /\ lgnnmu' = refine_corr(LegacyInput, lsam4, largs.NCLUSTERS)
    /\ lGNNMS_corr' = Append(lGNNMS_corr, lgnnmu')
    /\ lpc' = "prune"
    /\ UNCHANGED <<lsm, largs, BURN_IN, FLAG, lgnnm2, lsam4, coarsen, lGNNMS_nnm,
                   lGNNMS_pruned, lSCORE_VEC, lfinal_sam, lcalls, lerr>>

\* lines 1042-1043
LegacyPrune ==
    /\ UNCHANGED exceptLegacy
    /\ lpc = "prune"
    /\ lgnnm2' = get_pairs(lgnnmu)
    /\ lGNNMS_pruned' = Append(lGNNMS_pruned, lgnnm2')
    /\ lpc' = "stitch"
    /\ UNCHANGED <<lsm, largs, li, BURN_IN, FLAG, lgnnmu, lsam4, coarsen,
                   lGNNMS_nnm, lGNNMS_corr, lSCORE_VEC, lfinal_sam, lbodies,
                   lcalls, lerr>>

\* lines 1047-1050: sm.samap(...), a NameError when sm is not bound
LegacyStitch ==
    /\ UNCHANGED exceptLegacy
    /\ lpc = "stitch"
    /\ IF ~lsm
       THEN /\ lpc' = "raised"
            /\ lerr' = "NameError"
            /\ UNCHANGED <<lsam4, lGNNMS_nnm>>
       ELSE /\ lsam4' = samap(lgnnm2, largs.K, coarsen)
            /\ lGNNMS_nnm' = Append(lGNNMS_nnm, lsam4'.conn)
            /\ lpc' = "score"
            /\ UNCHANGED lerr
    /\ UNCHANGED <<lsm, largs, li, BURN_IN, FLAG, lgnnmu, lgnnm2, coarsen,
                   lGNNMS_corr, lGNNMS_pruned, lSCORE_VEC, lfinal_sam, lbodies,
                   lcalls>>

\* lines 1052-1064: the score snapshot and the burn-in test
LegacyScore ==
    /\ UNCHANGED exceptLegacy
    /\ lpc = "score"
    /\ lSCORE_VEC' = Append(lSCORE_VEC, compute_csim(lsam4))
    /\ IF li = BURN_IN + 1 /\ FLAG
       THEN /\ FLAG' = FALSE
            /\ BURN_IN' = BURN_IN + largs.NUMITERS
            /\ coarsen' = TRUE
       ELSE UNCHANGED <<FLAG, BURN_IN, coarsen>>
    /\ lpc' = "loop"
    /\ UNCHANGED <<lsm, largs, li, lgnnmu, lgnnm2, lsam4, lGNNMS_nnm,
                   lGNNMS_corr, lGNNMS_pruned, lfinal_sam, lbodies, lcalls,
                   lerr>>

\* lines 1068-1071
LegacyFinal ==
    /\ UNCHANGED exceptLegacy
    /\ lpc = "final"
    /\ lfinal_sam' = lsam4
    /\ lpc' = "returned"
    /\ UNCHANGED <<lsm, largs, li, BURN_IN, FLAG, lgnnmu, lgnnm2, lsam4, coarsen,
                   lGNNMS_nnm, lGNNMS_corr, lGNNMS_pruned, lSCORE_VEC, lbodies,
                   lcalls, lerr>>

LegacyNext ==
    \/ LegacyCall
    \/ LegacyFirst
    \/ LegacyLoopHead
    \/ LegacyRefine
    \/ LegacyPrune
    \/ LegacyStitch
    \/ LegacyScore
    \/ LegacyFinal

-----------------------------------------------------------------------------
(* The correlation kernel run by several workers: the prange loop of       *)
(* _refine_corr_kernel (mapping.py 1083-1124, numba threads) and the pool  *)
(* of _parallel_wrapper processes (SAMap.py 804-930).  A work unit is one  *)
(* row j of the pair table p.  A worker takes a unit, fills its arrays x   *)
(* and y from the shared profiles, and then computes the value and writes  *)
(* it to the shared output; the steps of different workers interleave in   *)
(* any order and any idle worker may take any unit not yet taken.          *)

RaceGenes == {1, 2, 3}
RaceProfiles == {<<0, 1, 2>>, <<2, 1, 0>>, <<1, 1, 0>>, <<0, 0, 1>>}

\* p: the rows np.unique left, each gene pair once
RacePairs == <<<<1, 2>>, <<1, 3>>, <<2, 3>>>>
RaceUnits == 1..Len(RacePairs)

\* np.argsort is a function of its argument: of the orders quicksort may
\* return for X, the build returns the same one every time
argsort(X) == CHOOSE xi \in Argsorts(X) : TRUE

\* the value one work unit computes from its arrays x and y
UnitValue(impl, x, y, corr_mode) ==
    IF impl = "mapping"
    THEN _refine_corr_kernel(x, y, argsort(x), corr_mode)
    ELSE _parallel_wrapper(x, y, corr_mode)

\* the arrays x and y of a worker: every prange iteration and every pool
\* process allocates its own
SharedScratch(w) == 1

Scratch(w) == w

\* what the output holds before any unit wrote: np.zeros(p1.size) in
\* mapping.py, an empty Manager().dict() in SAMap.py
InitialOutput(impl) == IF impl = "mapping" THEN Zero ELSE Unset

NoProfile == << >>

RaceIdle ==
    /\ rimpl = "mapping"
    /\ rmode = "pearson"
    /\ rworkers = 0
    /\ rX = << >>
    /\ rx = << >>
    /\ ry = << >>
    /\ runit = << >>
    /\ rtaken = {}
    /\ rdone = {}
    /\ rres = << >>

RaceInit ==
    /\ rimpl \in {"mapping", "legacy"}
    /\ rmode \in {"pearson", "xicorr"}
    /\ rworkers \in 1..MaxWorkers
    /\ rX \in [RaceGenes -> RaceProfiles]
    /\ rx = [w \in 1..rworkers |-> NoProfile]
    /\ ry = [w \in 1..rworkers |-> NoProfile]
    /\ runit = [w \in 1..rworkers |-> 0]
    /\ rtaken = {}
    /\ rdone = {}
    /\ rres = [j \in RaceUnits |-> InitialOutput(rimpl)]

\* mapping.py 1097-1108, SAMap.py 905-915: worker w starts unit j and fills
\* x and y from the columns of the two genes of row j
Load(w) ==
    /\ UNCHANGED exceptRace
    /\ runit[w] = 0
    /\ \E j \in RaceUnits \ rtaken :
          /\ runit' = [runit EXCEPT ![w] = j]
          /\ rtaken' = rtaken \cup {j}
          /\ rx' = [rx EXCEPT ![Scratch(w)] = rX[RacePairs[j][1]]]
          /\ ry' = [ry EXCEPT ![Scratch(w)] = rX[RacePairs[j][2]]]
    /\ UNCHANGED <<rimpl, rmode, rworkers, rX, rdone, rres>>

\* mapping.py 1110-1123, SAMap.py 918-930: worker w computes the value of its
\* unit from x and y and writes it to entry j of the output (res[j], or
\* CORR[ha] with ha the names of the two genes of row j); the legacy worker
\* writes nothing for an unrecognised mode
Compute(w) ==
    /\ UNCHANGED exceptRace
    /\ runit[w] # 0
    /\ LET j == runit[w]
           c == UnitValue(rimpl, rx[Scratch(w)], ry[Scratch(w)], rmode)
       IN /\ rres' = [rres EXCEPT ![j] = c]
          /\ rdone' = rdone \cup {j}
    /\ runit' = [runit EXCEPT ![w] = 0]
    /\ UNCHANGED <<rimpl, rmode, rworkers, rX, rx, ry, rtaken>>

RaceNext ==
    \/ \E w \in 1..rworkers : Load(w)
    \/ \E w \in 1..rworkers : Compute(w)

-----------------------------------------------------------------------------
(* _prepend_blast_prefix (mapping.py 749-757) on one identifier, and the   *)
(* later split of the gene name that assigns it to a species (line 852).   *)
(* A string is a sequence of characters.                                   *)

Alphabet == {"a", "b", "_"}

\* the strings of 1 to n characters
Strings(n) == UNION {[1..m -> Alphabet] : m \in 1..n}

\* str(x).split("_")[0]: the part before the first "_", all of x without one
SplitFirst(x) ==
    IF \E k \in 1..Len(x) : x[k] = "_"
    THEN SubSeq(x, 1, (CHOOSE k \in 1..Len(x) :
                          x[k] = "_" /\ \A m \in 1..(k - 1) : x[m] # "_") - 1)
    ELSE x

\* one element of the result of _prepend_blast_prefix(data, pre)
_prepend_blast_prefix(g, pre) ==
    IF SplitFirst(g) # pre THEN pre \o <<"_">> \o g ELSE g

PrefixIdle ==
    /\ fpre = << >>
    /\ fg = << >>
    /\ fout = << >>
    /\ fpc = "off"

PrefixInit ==
    /\ fpre \in Strings(MaxLen)
    /\ fg \in Strings(MaxLen)
    /\ fout = fg
    /\ fpc = "raw"

\* _prepend_blast_prefix applied to an identifier of a hit table
Prepend ==
    /\ UNCHANGED exceptPrefix
    /\ fpc = "raw"
    /\ fout' = _prepend_blast_prefix(fout, fpre)
    /\ fpc' = "once"
    /\ UNCHANGED <<fpre, fg>>

\* _prepend_blast_prefix applied to its own result
PrependAgain ==
    /\ UNCHANGED exceptPrefix
    /\ fpc = "once"
    /\ fout' = _prepend_blast_prefix(fout, fpre)
    /\ fpc' = "twice"
    /\ UNCHANGED <<fpre, fg>>

PrefixNext ==
    \/ Prepend
    \/ PrependAgain

-----------------------------------------------------------------------------
(* The specifications.                                                     *)

RunIdle ==
    /\ RunInit
    /\ nspecies = 1
    /\ ncells = 1

Init ==
    RunInit /\ ConsIdle /\ KernIdle /\ PairIdle /\ GraphIdle /\ KnnIdle
    /\ LegacyIdle /\ RaceIdle /\ PrefixIdle

Next == RunNext

\* _Samap_Iter: any number of run calls (up to MaxCalls) on one engine
Spec == Init /\ [][Next]_vars

\* construction of the engine from its inputs
InitConstruct ==
    RunIdle /\ ConsInit /\ KernIdle /\ PairIdle /\ GraphIdle /\ KnnIdle
    /\ LegacyIdle /\ RaceIdle /\ PrefixIdle

SpecConstruct == InitConstruct /\ [][ConsNext]_vars

InitKernel ==
    RunIdle /\ ConsIdle /\ KernInit /\ PairIdle /\ GraphIdle /\ KnnIdle
    /\ LegacyIdle /\ RaceIdle /\ PrefixIdle

\* the refinement of one gene pair of the homology graph
SpecKernel == InitKernel /\ [][KernNext]_vars

InitPairs ==
    RunIdle /\ ConsIdle /\ KernIdle /\ PairInit /\ GraphIdle /\ KnnIdle
    /\ LegacyIdle /\ RaceIdle /\ PrefixIdle

\* one call of a pruner
SpecPairs == InitPairs /\ [][PairNext]_vars

InitGraph ==
    RunIdle /\ ConsIdle /\ KernIdle /\ PairIdle /\ GraphInit /\ KnnIdle
    /\ LegacyIdle /\ RaceIdle /\ PrefixIdle

\* one call of _calculate_blast_graph or of _refine_corr
SpecGraph == InitGraph /\ [][GraphNext]_vars

InitKnn ==
    RunIdle /\ ConsIdle /\ KernIdle /\ PairIdle /\ GraphIdle /\ KnnInit
    /\ LegacyIdle /\ RaceIdle /\ PrefixIdle

\* one call of _mapper
SpecKnn == InitKnn /\ [][KnnNext]_vars

InitLegacy ==
    RunIdle /\ ConsIdle /\ KernIdle /\ PairIdle /\ GraphIdle /\ KnnIdle
    /\ LegacyInit /\ RaceIdle /\ PrefixIdle

\* Samap.run of SAMap.py: any number of run calls (up to MaxCalls)
SpecLegacy == InitLegacy /\ [][LegacyNext]_vars

InitRace ==
    RunIdle /\ ConsIdle /\ KernIdle /\ PairIdle /\ GraphIdle /\ KnnIdle
    /\ LegacyIdle /\ RaceInit /\ PrefixIdle

\* one call of the kernel: every interleaving of the workers
SpecRace == InitRace /\ [][RaceNext]_vars

InitPrefix ==
    RunIdle /\ ConsIdle /\ KernIdle /\ PairIdle /\ GraphIdle /\ KnnIdle
    /\ LegacyIdle /\ RaceIdle /\ PrefixInit

\* _prepend_blast_prefix applied once and then to its own result
SpecPrefix == InitPrefix /\ [][PrefixNext]_vars

-----------------------------------------------------------------------------
(* Claims about _Samap_Iter.run, checked under Spec.                       *)

RunEnded == pc \in {"returned", "raised"}

\* The run call ended, and not because the neighbour search had too few cells
EndedWithoutStitchFailure == RunEnded /\ err # "RuntimeError"

Cycle == <<"prune", "map", "install", "score">>

RECURSIVE ExpectedHist(_)
ExpectedHist(n) ==
    IF n <= 1 THEN Cycle ELSE ExpectedHist(n - 1) \o <<"refine">> \o Cycle

\* C1: the first run(NUMITERS = n), n >= 1, on a fresh engine executes exactly
\* n cycles prune -> project/stitch -> install -> score with one refinement
\* between two consecutive cycles and none after the last; on return
\* GNNMS_pruned and GNNMS_nnm hold n entries, GNNMS_corr n - 1, and final_sam
\* is the stitched object of cycle n.
C1_RunExecutesNCycles ==
    (calls = 1 /\ args.NUMITERS >= 1 /\ EndedWithoutStitchFailure) =>
        /\ pc = "returned"
        /\ hist = ExpectedHist(args.NUMITERS)
        /\ Len(GNNMS_pruned) = args.NUMITERS
        /\ Len(GNNMS_nnm) = args.NUMITERS
        /\ Len(GNNMS_corr) = args.NUMITERS - 1
        /\ final_sam # Unbound
        /\ final_sam.conn = GNNMS_nnm[args.NUMITERS]

\* C2: in every cycle, once the stitched graph is installed, the score step
\* yields for every ordered pair of distinct species the mean row sum of that
\* block of the installed graph divided by the K of this run (the K recorded on
\* the stitched object in the same cycle), and the iteration counter advances.
C2_ScoreUsesRecordedK ==
    (hist # << >> /\ hist[Len(hist)] = "score") =>
        /\ pc # "raised"
        /\ printed # << >>
        /\ printed[Len(printed)] =
              [p \in SpeciesPairs(nspecies) |->
                  [op |-> "mean_row_sum",
                   conn |-> GNNMS_nnm[Len(GNNMS_nnm)],
                   K |-> args.K]]
        /\ self_iter = Len(GNNMS_nnm)

\* C3: after run returns, SCORE_VEC holds one score snapshot for each
\* completed cycle.
C3_ScoreHistoryRecorded ==
    pc = "returned" => Len(SCORE_VEC) = self_iter

\* C4: run(NUMITERS = 1) on a fresh engine executes no refinement and its
\* final connectivity graph is the one obtained by pruning the initial
\* homology graph once and stitching once.
C4_OneIterationIsPruneAndStitch ==
    (calls = 1 /\ args.NUMITERS = 1 /\ EndedWithoutStitchFailure) =>
        /\ pc = "returned"
        /\ GNNMS_corr = << >>
        /\ \A n \in 1..Len(hist) : hist[n] # "refine"
        /\ final_sam # Unbound
        /\ final_sam.conn =
              _mapper(_get_pairs(self_gnnm), args.K, args.pairwise).conn

-----------------------------------------------------------------------------
(* Claims about engine construction, checked under SpecConstruct.          *)

BadInput == \E n \in 1..Len(sams) : sams[n] = "other"

AllPairs(n) == {p \in (1..n) \X (1..n) : p[1] < p[2]}

\* C5: when some input is neither a path nor a SAM object, construction
\* raises TypeError before any dataset is loaded, preprocessed or saved and
\* before any homology graph is built, wherever the bad input is listed.
C5_TypeErrorBeforeAnyWork ==
    (cpc # "off" /\ BadInput) =>
        /\ loaded = {}
        /\ saved = {}
        /\ used = << >>
        /\ graph = "none"
        /\ cpc \in {"validate", "raised"}
        /\ cpc = "raised" => cerr = "TypeError"

\* a bad input listed after a well-formed path input has been rejected
C5_Witness ==
    /\ cpc = "raised"
    /\ cerr = "TypeError"
    /\ Len(sams) >= 2
    /\ sams[1] = "path"
    /\ sams[Len(sams)] = "other"

\* C6: when the graph is built from hit tables, a species pair with neither
\* directory ordering present ends construction with an error and no graph;
\* a pair with either ordering present is read from a directory that exists;
\* a graph is returned only after every pair i < j was read.
C6_MissingPairIsFatal ==
    /\ \A n \in 1..Len(used) :
          /\ used[n].existing = {} =>
                /\ n = Len(used)
                /\ cpc = "raised"
                /\ cerr \in {"FileExistsError", "FileNotFoundError"}
                /\ graph = "none"
          /\ used[n].existing # {} =>
                used[n].dir \in used[n].existing
    /\ graph = "built" =>
          \A p \in AllPairs(Len(sams)) :
              \E n \in 1..Len(used) : used[n].pair = p /\ used[n].dir # NoPair

\* the first pair was read from the reversed ordering, a later pair has no
\* directory and construction failed
C6_Witness ==
    /\ cpc = "raised"
    /\ cerr = "FileExistsError"
    /\ Len(used) >= 2
    /\ used[1].dir = <<2, 1>>
    /\ used[Len(used)].existing = {}
    /\ graph = "none"

-----------------------------------------------------------------------------
(* Claims about the refinement of a gene pair, checked under SpecKernel.   *)

KernEnded == kpc \in {"done", "raised"}

\* C7: with a correlation mode other than "pearson" and "xicorr" the
\* refinement ends in an error and no weight reaches the refined graph: no
\* supported mode is used in its place and no pair is left without a value.
C7_UnknownModeIsFatal ==
    (KernEnded /\ kmode \notin {"pearson", "xicorr"}) =>
        /\ kpc = "raised"
        /\ kout = NoOutput
        /\ kxi = << >>

\* a profile with all its values equal
Constant(x) == \A a, b \in DOMAIN x : x[a] = x[b]

\* no cell where both profiles have support
DisjointSupport(x, y) == \A c \in DOMAIN x : ~(x[c] > 0 /\ y[c] > 0)

Degenerate(x, y) == Constant(x) \/ Constant(y) \/ DisjointSupport(x, y)

\* the correlation modes an implementation accepts
Supported(impl) ==
    IF impl = "mapping" THEN {"pearson", "xicorr"} ELSE {"pearson"}

\* C8: with the default threshold, a degenerate pair of profiles ends with
\* the weight exactly 0 and without an exception, and no NaN is written to
\* the refined graph, in every supported correlation mode.
C8_DegenerateScoresZero ==
    (/\ KernEnded
     /\ kthr = 0
     /\ kmode \in Supported(kimpl)
     /\ Degenerate(kx, ky)) =>
        /\ kpc = "done"
        /\ ~kout.val.nan
        /\ IsZero(kout.val)
        /\ ~kout.stored

-----------------------------------------------------------------------------
(* Claims about the pruners, checked under SpecPairs.                      *)

NonZeros(B, r) == {c \in Genes : B[<<r, c>>] # R0}

\* C9: _sparse_knn(D, k), for every k >= 0, returns a matrix with at most k
\* nonzero entries in a row, whose nonzero entries equal the input's, and
\* where every retained entry of a row is >= every entry pruned from it.
C9_SparseKnnKeepsTopK ==
    (ppc = "done" /\ pfun = "_sparse_knn") =>
        \A r \in Genes :
            /\ Cardinality(NonZeros(pB, r)) <= NOPs1
            /\ \A c \in NonZeros(pB, r) : pB[<<r, c>>] = pgnnm[<<r, c>>]
            /\ \A c \in NonZeros(pB, r) :
                  \A x \in NonZeros(pgnnm, r) \ NonZeros(pB, r) :
                      RLeq(pgnnm[<<r, x>>], pB[<<r, c>>])

\* C10: in the matrix get_pairs or _get_pairs returns, the row and the
\* column of every gene whose feature weight is <= 0 are zero.
C10_NonPositiveWeightIsolated ==
    (ppc = "done" /\ pfun \in {"get_pairs", "_get_pairs"}) =>
        \A g \in Genes :
            pW[g] <= 0 =>
                \A h \in Genes : pB[<<g, h>>] = R0 /\ pB[<<h, g>>] = R0

\* get_pairs pruned with NOPs1 > 0 a graph in which a gene of weight <= 0
\* had edges to and from a gene of positive weight, and an edge between
\* genes of positive weight survived
C10_Witness ==
    /\ ppc = "done"
    /\ pfun = "get_pairs"
    /\ NOPs1 > 0
    /\ \E g, h \in Genes :
          /\ g # h
          /\ pW[g] > 0 /\ pW[h] > 0
          /\ pB[<<g, h>>] # R0
          /\ \E z \in Genes :
                /\ pW[z] <= 0
                /\ pgnnm[<<z, g>>] # R0
                /\ pgnnm[<<g, z>>] # R0

-----------------------------------------------------------------------------
(* Claims about the homology graph, checked under SpecGraph.               *)

Symmetric(G) == \A e \in Genes \X Genes : G[e] = G[<<e[2], e[1]>>]

\* C11: the graph _calculate_blast_graph returns, with reciprocate true or
\* false and any number of species, and the graph _refine_corr returns, for
\* any NCLUSTERS, are symmetric.
C11_HomologyGraphSymmetric ==
    gpc = "done" => Symmetric(gout)

\* refinement in several chunks of a graph with an edge in one direction
\* only returned a graph with that edge
C11_Witness ==
    /\ gpc = "done"
    /\ gfun = "_refine_corr"
    /\ NCLUSTERS >= 2
    /\ \E e \in OffDiagonal :
          /\ ggraph[e] = R0
          /\ ggraph[<<e[2], e[1]>>] # R0
          /\ gout[e] # R0

-----------------------------------------------------------------------------
(* Claims about _xicorr, checked under SpecKernel.                         *)

Distinct(x) == \A a, b \in DOMAIN x : a # b => x[a] # x[b]

Reverse(x) ==
    [a \in DOMAIN x |-> x[Cardinality(DOMAIN x) + 1 - a]]

One == [nan |-> FALSE, num |-> 1, den2 |-> 1]

\* the kernel of mapping.py computed the Xi correlation of kx and ky
XiComputed == kimpl = "mapping" /\ kmode = "xicorr" /\ kpc = "done"

\* C12 as stated: for pairwise distinct values, _xicorr(X, X) is exactly 1
\* and _xicorr(X, reverse(X)) is negative.
C12_XiSelfTest ==
    (XiComputed /\ Distinct(kx)) =>
        /\ ky = kx => kval = One
        /\ ky = Reverse(kx) => Less(kval, 0)

\* increasing or decreasing along the cells
Monotone(x) ==
    \/ \A a, b \in DOMAIN x : a < b => x[a] < x[b]
    \/ \A a, b \in DOMAIN x : a < b => x[a] > x[b]

\* C12 as the code has it: for n pairwise distinct values _xicorr(X, X)
\* equals (n - 2) / (n + 1), and so does _xicorr(X, reverse(X)) when X is
\* monotone; the value is not negative and is below 1.
C12_XiSelfTestAmended ==
    (/\ XiComputed
     /\ Distinct(kx)
     /\ (ky = kx \/ (Monotone(kx) /\ ky = Reverse(kx)))) =>
        LET n == Cardinality(DOMAIN kx) IN
        /\ ~kval.nan
        /\ kval.den2 > 0
        /\ kval.num >= 0
        /\ kval.num * kval.num * (n + 1) * (n + 1) =
              (n - 2) * (n - 2) * kval.den2
        /\ kval.num * kval.num < kval.den2

\* the Xi correlation of three increasing or decreasing values with their
\* reverse is 1/4, not negative
C12_Witness ==
    /\ XiComputed
    /\ Monotone(kx)
    /\ Cardinality(DOMAIN kx) = 3
    /\ ky = Reverse(kx)
    /\ ky # kx
    /\ kval.num > 0
    /\ 16 * kval.num * kval.num = kval.den2

-----------------------------------------------------------------------------
(* Claims about the stitched neighbour graph, checked under SpecKnn.       *)

\* C13: the graph installed as the connectivity graph has an all-zero
\* diagonal, in pairwise mode and in pooled mode.
C13_ZeroDiagonal ==
    spc = "done" => \A u \in Cells : sconn[<<u, u>>] = R0

\* C14: the graph _mapper installs as the connectivity graph is
\* symmetrised: the entries (u, v) and (v, u) are equal for all cells.
C14_InstalledGraphSymmetric ==
    spc = "done" => \A u, v \in Cells : sconn[<<u, v>>] = sconn[<<v, u>>]

NumSpecies == Cardinality({sspecies[c] : c \in Cells})

\* every species holds at least K cells
EnoughCells ==
    \A id \in 1..NumSpecies : Cardinality(CellsOf(sspecies, id)) >= sK

OutNeighbours(u, id) == {v \in CellsOf(sspecies, id) : sconn[<<u, v>>] # R0}

\* C18: in pairwise mode with two or more species of at least K cells,
\* stitching succeeds, every ordered pair of distinct species is queried
\* exactly once, and every cell has exactly K out-neighbours in every
\* other species.
C18_PairwiseKOutNeighbours ==
    (spc # "ready" /\ spairwise /\ NumSpecies >= 2 /\ EnoughCells) =>
        /\ spc = "done"
        /\ \A id1, id2 \in 1..NumSpecies :
              id1 # id2 =>
                 /\ Cardinality({q \in DOMAIN squeries :
                                    squeries[q] = <<id1, id2>>}) = 1
                 /\ \A u \in CellsOf(sspecies, id1) :
                       Cardinality(OutNeighbours(u, id2)) = sK

\* three species were stitched pairwise; a cell with two cells of another
\* species at the same distance got one of them
C18_Witness ==
    /\ spc = "done"
    /\ spairwise
    /\ NumSpecies = 3
    /\ sK = 1
    /\ \E u \in Cells :
          \E v, w \in Cells :
             /\ v # w
             /\ sspecies[v] = sspecies[w]
             /\ sspecies[v] # sspecies[u]
             /\ Distance(spos, u, v) = Distance(spos, u, w)
             /\ sconn[<<u, v>>] # R0
             /\ sconn[<<u, w>>] = R0

-----------------------------------------------------------------------------
(* Claims about the chunks of _refine_corr, checked under SpecGraph.       *)

\* C15: for every gene count and every NCLUSTERS the base chunks are
\* pairwise disjoint and their union is the set of all genes, so that the
\* assertion on their sizes does not fail.
C15_BaseChunksPartitionGenes ==
    (gfun = "_refine_corr" /\ gpc # "ready") =>
        /\ gpc # "raised"
        /\ gerr = "none"
        /\ Len(ixs) = NCLUSTERS
        /\ \A c, e \in 1..NCLUSTERS : c # e => ixs[c] \cap ixs[e] = {}
        /\ UNION {ixs[c] : c \in 1..NCLUSTERS} = 1..gn

\* three genes were split in two chunks of unequal size
C15_Witness ==
    /\ gfun = "_refine_corr"
    /\ gpc = "chunked"
    /\ gn = 3
    /\ NCLUSTERS = 2
    /\ Cardinality(ixs[1]) = 2
    /\ Cardinality(ixs[2]) = 1

-----------------------------------------------------------------------------
(* Claims about the degree and the edges of get_pairs, checked under       *)
(* SpecPairs.                                                              *)

GetPairsPruned ==
    ppc = "done" /\ pfun = "get_pairs" /\ ~(NOPs1 = 0 /\ NOPs2 = 0)

\* C16: when NOPs1 and NOPs2 are not both zero, every gene has at most
\* NOPs1 + NOPs2 nonzero entries in its row of the graph get_pairs returns.
C16_DegreeBounded ==
    GetPairsPruned =>
        \A g \in Genes : Cardinality(NonZeros(pB, g)) <= NOPs1 + NOPs2

\* the masked, row-normalised graph get_pairs prunes
MaskedInput == MaskGraph(NormaliseRows(pgnnm), Binarise(pW))

RLess(a, b) == ~RLeq(b, a)

\* entry e of M is among the k largest of its row however ties are ordered
SurelyTopOfRow(M, e, k) ==
    /\ M[e] # R0
    /\ Cardinality({c \in Stored(M, e[1]) \ {e[2]} :
                       RLeq(M[e], M[<<e[1], c>>])}) < k

\* entry e of M is among the k largest of its row for some order of ties
MaybeTopOfRow(M, e, k) ==
    /\ M[e] # R0
    /\ Cardinality({c \in Stored(M, e[1]) \ {e[2]} :
                       RLess(M[e], M[<<e[1], c>>])}) < k

Flip(e) == <<e[2], e[1]>>

\* C17: the edges of the graph get_pairs returns are those of the
\* symmetrised union of the graph keeping the NOPs1 largest entries of every
\* row and the graph keeping the NOPs2 largest entries of every column of
\* the masked, row-normalised graph: an entry among the largest of its row
\* or of its column is an edge, in both directions, and every edge comes
\* from such an entry.
C17_UnionOfRowAndColumnFilters ==
    GetPairsPruned =>
        LET M == MaskedInput
            MT == Transpose(MaskedInput)
        IN \A e \in Genes \X Genes :
              /\ (\/ SurelyTopOfRow(M, e, NOPs1)
                  \/ SurelyTopOfRow(MT, Flip(e), NOPs2)) =>
                     pB[e] # R0 /\ pB[Flip(e)] # R0
              /\ pB[e] # R0 =>
                    \/ MaybeTopOfRow(M, e, NOPs1)
                    \/ MaybeTopOfRow(MT, Flip(e), NOPs2)
                    \/ MaybeTopOfRow(M, Flip(e), NOPs1)
                    \/ MaybeTopOfRow(MT, e, NOPs2)

-----------------------------------------------------------------------------
(* Claims about the threshold of the refinement, checked under SpecKernel. *)

-----------------------------------------------------------------------------
(* Claims about a failing cycle of _Samap_Iter.run, checked under Spec.    *)

\* C20: when stitching fails in a cycle of run, the error reaches the
\* caller, no later step of the run executes, final_sam is not assigned by
\* that run, and the lists record completed cycles only:
\* len(GNNMS_pruned) = len(GNNMS_nnm) = iter.
C20_FailedCycleLeavesNoTrace ==
    (pc = "raised" /\ err = "RuntimeError") =>
        /\ hist[Len(hist)] = "map"
        /\ calls = 1 => final_sam = Unbound
        /\ Len(GNNMS_pruned) = Len(GNNMS_nnm)
        /\ Len(GNNMS_nnm) = self_iter

-----------------------------------------------------------------------------
(* Claims about Samap.run of SAMap.py, checked under SpecLegacy.           *)

LegacyEnded == lpc \in {"returned", "raised"}

\* C21: every call run(NUMITERS = n), n >= 0, of Samap.run ends by returning,
\* after the body of the refine -> prune -> stitch loop was executed exactly
\* n times, and each of the four lists of ITER_DATA (stitched graphs, refined
\* graphs, pruned graphs, score vectors) then holds n entries, one per
\* iteration.
C21_LegacyRunExecutesNIterations ==
    LegacyEnded =>
        /\ lpc = "returned"
        /\ lbodies = largs.NUMITERS
        /\ Len(lGNNMS_nnm) = largs.NUMITERS
        /\ Len(lGNNMS_corr) = largs.NUMITERS
        /\ Len(lGNNMS_pruned) = largs.NUMITERS
        /\ Len(lSCORE_VEC) = largs.NUMITERS

-----------------------------------------------------------------------------
(* Claims about the workers of the correlation kernel, checked under       *)
(* SpecRace.                                                               *)

\* what sequential execution computes for work unit j
SequentialValue(j) ==
    UnitValue(rimpl, rX[RacePairs[j][1]], rX[RacePairs[j][2]], rmode)

\* C22: the correlation kernel is race-free: for any number of workers and
\* any interleaving of their steps, a work unit j changes only entry j of the
\* output, and the value it writes is the one sequential execution computes
\* for j, so the finished vector of correlation values is the sequential one.
C22_KernelRaceFree ==
    \A j \in RaceUnits :
        rres[j] = IF j \in rdone THEN SequentialValue(j)
                  ELSE InitialOutput(rimpl)

\* two workers are inside different work units over different profiles while
\* a third unit has already been written
C22_Witness ==
    /\ rworkers >= 2
    /\ runit[1] # 0
    /\ runit[2] # 0
    /\ rdone # {}
    /\ rx[1] # rx[2]
    /\ ry[1] # ry[2]
    /\ \E j \in rdone : SequentialValue(j) # InitialOutput(rimpl)

-----------------------------------------------------------------------------
(* Claims about the graphs recorded by _Samap_Iter.run, checked under      *)
(* Spec.                                                                   *)

\* every object named by the list ids still holds what the list recorded
Untouched(ids, recorded) ==
    /\ Len(ids) = Len(recorded)
    /\ \A t \in 1..Len(ids) : heap[ids[t]] = recorded[t]

\* C23: across any sequence of cycles and run calls, no step of the loop
\* (prune, project, stitch, score, refine) changes a graph that was already
\* recorded: the object self.gnnm and the objects behind every entry of
\* GNNMS_pruned, GNNMS_corr and GNNMS_nnm hold the value they had when they
\* were recorded.
C23_RecordedGraphsImmutable ==
    /\ heap[id_gnnm] = InputGraph
    /\ self_gnnm = InputGraph
    /\ Untouched(ids_pruned, GNNMS_pruned)
    /\ Untouched(ids_corr, GNNMS_corr)
    /\ Untouched(ids_nnm, GNNMS_nnm)

\* a second run call has returned after three cycles and two refinements in
\* all, every pruned graph having gone through _mapping_window
C23_Witness ==
    /\ calls = 2
    /\ pc = "returned"
    /\ Len(ids_pruned) >= 3
    /\ Len(ids_nnm) >= 3
    /\ Len(ids_corr) >= 2
    /\ \E c \in 1..Len(heap) : heap[c].op = "_tanh_scale"

-----------------------------------------------------------------------------
(* Claims about _calculate_blast_graph on its hit tables, checked under    *)
(* SpecGraph.                                                              *)

BlastGraphDone == gfun = "_calculate_blast_graph" /\ gpc = "done"

\* the gene pairs of two different species
CrossPairs == {e \in Genes \X Genes : gsp[e[1]] # gsp[e[2]]}

\* (f + r) / 2
Averaged(f, r) == RMul(RAdd(f, r), Rat(1, 2))

\* C24: for genes a and b of two species with forward score f(a,b) and
\* reverse score r(b,a) (0 when the hit is absent): with reciprocate, edge
\* (a,b) is present iff both scores are nonzero; without reciprocate, iff at
\* least one is nonzero; in both cases a present edge weighs (f + r) / 2.
C24_ReciprocalHitsAveraged ==
    BlastGraphDone =>
        \A e \in CrossPairs :
            LET f == ggraph[e]
                r == ggraph[<<e[2], e[1]>>]
                present == IF reciprocate THEN f # R0 /\ r # R0
                           ELSE f # R0 \/ r # R0
            IN /\ (gout[e] # R0) <=> present
               /\ present => gout[e] = Averaged(f, r)

\* reciprocate was requested; one pair has a hit in one direction only and
\* another has two hits of different scores
C24_Witness ==
    /\ BlastGraphDone
    /\ reciprocate
    /\ \E e \in CrossPairs : ggraph[e] # R0 /\ ggraph[<<e[2], e[1]>>] = R0
    /\ \E e \in CrossPairs :
          /\ ggraph[e] # R0
          /\ ggraph[<<e[2], e[1]>>] # R0
          /\ ggraph[e] # ggraph[<<e[2], e[1]>>]
          /\ gout[e] = Averaged(ggraph[e], ggraph[<<e[2], e[1]>>])

-----------------------------------------------------------------------------
(* Claims about the pruners on a symmetric graph, checked under SpecPairs. *)

\* C25: given a symmetric homology graph, the pruned graph is symmetric
\* (weight(a,b) = weight(b,a)), for every NOPs1 and NOPs2 of get_pairs, both
\* zero included, and for _get_pairs, the mask-only pruner of the loop.
C25_PrunedGraphSymmetric ==
    (/\ ppc = "done"
     /\ pfun \in {"get_pairs", "_get_pairs"}
     /\ Symmetric(pgnnm))
        => Symmetric(pB)

-----------------------------------------------------------------------------
(* Claims about the chunks of _refine_corr, checked under SpecGraph.       *)

RefineDone == gfun = "_refine_corr" /\ gpc = "done"

\* what _refine_corr returns with NCLUSTERS = 1
RefinedInOneChunk ==
    Mirror(Assemble(ggraph, BaseChunks(gix, gn, 1), gcorr, gW, 1))

-----------------------------------------------------------------------------
(* Claims about the cells that enter the correlation of a gene pair,       *)
(* checked under SpecKernel.                                               *)

\* the cells where at least one of the two profiles is nonzero
Support == {c \in DOMAIN kx : kx[c] # 0 \/ ky[c] # 0}

\* the orders np.argsort may return for X restricted to the cells C
ArgsortsOver(X, C) ==
    LET n == Cardinality(C) IN
    {p \in [1..n -> C] :
        /\ \A a, b \in 1..n : a # b => p[a] # p[b]
        /\ \A a, b \in 1..n : a < b => X[p[a]] <= X[p[b]]}

\* the values the statistic of the mode in force takes over the cells C
StatisticOver(C) ==
    IF kmode = "pearson" THEN {Pearson(kx, ky, C)}
    ELSE {_xicorr(kx, ky, xi) : xi \in ArgsortsOver(kx, C)}

\* the kernel evaluated a statistic for the pair, rather than setting 0 or
\* nothing without one
StatisticComputed ==
    /\ kpc = "computed"
    /\ \/ kimpl = "mapping"
       \/ /\ kimpl = "legacy"
          /\ kmode = "pearson"
          /\ \E c \in DOMAIN kx : kx[c] > 0 /\ ky[c] > 0

\* C27: for each gene pair the correlation is computed over exactly the
\* cells where at least one of the two neighbourhood-averaged profiles is
\* nonzero; cells where both profiles are zero do not enter the statistic.
C27_CorrelationOverSupportOnly ==
    StatisticComputed => kval \in StatisticOver(Support)

-----------------------------------------------------------------------------
(* Claims about _prepend_blast_prefix, checked under SpecPrefix.           *)

\* x begins with the characters of y
StartsWith(x, y) == Len(x) >= Len(y) /\ SubSeq(x, 1, Len(y)) = y

\* C28: for every species id pre and every identifier g, applying
\* _prepend_blast_prefix twice gives what applying it once gives, and the
\* result begins with pre followed by "_", so that the split of the gene name
\* on its first "_" assigns the gene to species pre; also when pre contains
\* "_" and when g equals pre.
C28_PrefixIdempotent ==
    /\ fpc \in {"once", "twice"} =>
          /\ StartsWith(fout, fpre \o <<"_">>)
          /\ SplitFirst(fout) = fpre
    /\ fpc = "twice" => fout = _prepend_blast_prefix(fg, fpre)

-----------------------------------------------------------------------------
(* Claims about the graph every refinement of _Samap_Iter starts from,     *)
(* checked under Spec; what _refine_corr keeps of that graph is checked    *)
(* under SpecGraph.                                                        *)

\* C29: every refinement of _Samap_Iter is computed over the initial
\* homology graph self.gnnm and never over the previous refined graph: every
\* entry of GNNMS_corr is _refine_corr of self.gnnm (so its support lies
\* within the edges of self.gnnm between genes of positive feature weight,
\* as C29_SupportWithinEligibleEdges states for _refine_corr), and run
\* leaves self.gnnm unchanged.
C29_RefinementOverInitialGraph ==
    /\ self_gnnm = InputGraph
    /\ heap[id_gnnm] = InputGraph
    /\ \A t \in 1..Len(GNNMS_corr) :
          /\ GNNMS_corr[t].op = "_refine_corr"
          /\ GNNMS_corr[t].gnnm = InputGraph

\* the second refinement of an engine was made while self.gnnmu held the
\* first refined graph
C29_Witness ==
    /\ Len(GNNMS_corr) >= 2
    /\ GNNMS_corr[1] # InputGraph
    /\ GNNMS_corr[2].conn # GNNMS_corr[1].conn
    /\ self_gnnmu = GNNMS_corr[Len(GNNMS_corr)]

\* C29, for one call of _refine_corr on a graph: every stored entry of the
\* refined graph joins two genes with an edge in the input graph, both of
\* feature weight above T1 = 0.
C29_SupportWithinEligibleEdges ==
    RefineDone =>
        \A e \in Genes \X Genes :
            gout[e] # R0 =>
                /\ HasEdge(ggraph, e[1], e[2])
                /\ gW[e[1]] > 0
                /\ gW[e[2]] > 0

\* an edge of the input graph is missing from the refined graph only because
\* one of its genes has no feature weight, while another edge was kept
C29_SupportWitness ==
    /\ RefineDone
    /\ \E p \in UPairs :
          /\ HasEdge(ggraph, p[1], p[2])
          /\ gcorr[p] # 0
          /\ gW[p[1]] = 0
          /\ gout[p] = R0
    /\ \E p \in UPairs : gout[p] # R0

-----------------------------------------------------------------------------
(* Claims about several run calls on one engine, checked under Spec.       *)

\* every run call so far had NUMITERS >= 1 and returned, and none is under way
AllReturned ==
    /\ pc = "returned"
    /\ Len(ended) = calls
    /\ \A c \in 1..Len(ended) :
          ended[c].err = "none" /\ ended[c].NUMITERS >= 1

\* C30: after any sequence of normally returning run calls, each with
\* NUMITERS >= 1, on one engine: iter = len(GNNMS_nnm) = len(GNNMS_pruned) =
\* len(GNNMS_corr) + 1; the first pruned graph comes from the initial graph
\* and every later one from the refined graph recorded just before it; and
\* every refinement, the one that opens a later run included, is based on the
\* connectivity graph of the cycle before it, which for an opening
\* refinement is the last cycle of the previous run.
C30_ListsAlignedAcrossRuns ==
    AllReturned =>
        /\ self_iter = Len(GNNMS_nnm)
        /\ self_iter = Len(GNNMS_pruned)
        /\ self_iter = Len(GNNMS_corr) + 1
        /\ GNNMS_pruned[1] = _get_pairs(InputGraph)
        /\ \A t \in 2..Len(GNNMS_pruned) :
              GNNMS_pruned[t] = _get_pairs(GNNMS_corr[t - 1])
        /\ \A t \in 1..Len(GNNMS_corr) : GNNMS_corr[t].conn = GNNMS_nnm[t]

\* two run calls of two cycles each have returned: the third refined graph was
\* recorded by the refinement that opened the second call
C30_Witness ==
    /\ AllReturned
    /\ calls = 2
    /\ ended[1].NUMITERS = 2
    /\ ended[2].NUMITERS = 2
    /\ Len(GNNMS_corr) = 3
    /\ Len(GNNMS_pruned) = 4

====
